---- MODULE Spec2Model ----
(***************************************************************************)
(* Leona App Store screenshot generators.                                  *)
(*                                                                         *)
(*   generate_marketing_screenshots.py  device mockups on soft gradients   *)
(*   generate_screenshots.py            six full-bleed simulated screens   *)
(*                                                                         *)
(* Each script is a single-threaded batch: main() walks a fixed list of    *)
(* items and renders one image per item.  The batch machines below model   *)
(* main() and the control flow of every render call; the pure rendering    *)
(* routines (gradient, frame geometry, shadow, random decoration) are      *)
(* operators, exercised by their own specifications.                       *)
(***************************************************************************)
EXTENDS Integers, Sequences, FiniteSets, TLC

VARIABLES
  script,     \* which script's main() this run executes: "marketing" | "screenshots"
  missing,    \* source screenshots absent from the input directories: set of <<dir, file>>
  fontFiles,  \* state of each font file the script tries to load
  iconFile,   \* state of the ICON file opened by paste_icon
  pos,        \* index of the batch item main() handles next (1-based)
  status,     \* "running" | "done" | "crashed"
  written,    \* files saved so far, in order: records [item, path, size, ...]
  raised,     \* exceptions raised so far inside render calls: set of <<item, kind>>
  chart,      \* what the last shot3 call drew of its chart: [called, lines, curve]
  frame,      \* one build_*_frame call: its arguments and the geometry it computes (<<>>: not yet)
  grad,       \* one create_soft_gradient call: its arguments and the rows drawn so far
  rng,        \* state of the generator behind random.seed / randint / uniform (one per process)
  calls,      \* the decorating calls made so far, in order: records [fn, size, out],
              \* out the values drawn so far
  threads,    \* render calls running as threads of one process; of each: fn, size, pc,
              \* alone (the generator state of the same call run with nothing beside it),
              \* same (every draw so far equals that run's), hit (cut into by another)
  shadow,     \* make_device_shadow calls for one device: [device, shadows]
  curve,      \* one pass of shot3's growth-curve code: chart geometry and the points so far
  gen         \* one generate() call, statement by statement: its arguments, the statement
              \* it is at, the layers put on the canvas so far and the files saved

mainVars == <<script, missing, fontFiles, iconFile, pos, status, written, raised, chart>>
frameVars == <<frame>>
gradVars == <<grad>>
randVars == <<rng, calls, threads>>
shadowVars == <<shadow>>
curveVars == <<curve>>
genVars == <<gen>>
vars == <<mainVars, frameVars, gradVars, randVars, shadowVars, curveVars, genVars>>

\* What an action of one machine leaves alone: the other machines' variables.
notMain == <<frameVars, gradVars, randVars, shadowVars, curveVars, genVars>>
notFrame == <<mainVars, gradVars, randVars, shadowVars, curveVars, genVars>>
notGrad == <<mainVars, frameVars, randVars, shadowVars, curveVars, genVars>>
notRand == <<mainVars, frameVars, gradVars, shadowVars, curveVars, genVars>>
notShadow == <<mainVars, frameVars, gradVars, randVars, curveVars, genVars>>
notCurve == <<mainVars, frameVars, gradVars, randVars, shadowVars, genVars>>
notGen == <<mainVars, frameVars, gradVars, randVars, shadowVars, curveVars>>

(***************************************************************************)
(* Bounds of the model.                                                    *)
(***************************************************************************)
MaxMissing == 2   \* at most this many source screenshots are absent in a run
MaxFrameW == 16   \* frame widths 1..MaxFrameW are tried (besides the widths generate() uses)
MaxShotDim == 4   \* screenshot sizes (1..MaxShotDim) x (1..MaxShotDim) are tried (besides real ones)
MaxGradH == 30    \* gradient canvas heights 1..MaxGradH are tried (besides 100)
MaxPos == 2       \* a device is placed at x, y in -1..MaxPos
MaxCanvas == 5    \* canvas sizes (1..MaxCanvas) x (1..MaxCanvas) are tried (besides larger ones)
MaxChart == 6     \* chart widths and heights 1..MaxChart are tried (besides the real ones)
RngStates == 8    \* number of states of the modelled random generator
MaxCalls == 2     \* decorating calls recorded in one behaviour

(***************************************************************************)
(* generate_marketing_screenshots.py: configuration                        *)
(***************************************************************************)
IPHONE_67_CANVAS == <<1284, 2778>>
IPHONE_65_CANVAS == <<1242, 2688>>
IPAD_13_CANVAS   == <<2048, 2732>>
IPAD_129_CANVAS  == <<2064, 2752>>

SCREENS ==
  << [file |-> "01_Onboarding.png", out |-> "01_Welcome.png",
      headline |-> <<"Your baby's", "first companion">>,
      colors |-> << <<255, 230, 240>>, <<255, 190, 215>>, <<250, 150, 190>> >>],
     [file |-> "02_Dashboard.png",  out |-> "02_Dashboard.png",
      headline |-> <<"Everything you", "need, one tap away">>,
      colors |-> << <<220, 235, 255>>, <<180, 210, 255>>, <<140, 175, 240>> >>],
     [file |-> "03_Statistics.png", out |-> "03_Statistics.png",
      headline |-> <<"Understand your", "baby's rhythm">>,
      colors |-> << <<220, 245, 225>>, <<170, 225, 185>>, <<120, 200, 150>> >>],
     [file |-> "04_Growth.png",     out |-> "04_Growth.png",
      headline |-> <<"Watch them", "grow, every day">>,
      colors |-> << <<255, 240, 220>>, <<255, 215, 175>>, <<250, 190, 130>> >>],
     [file |-> "05_Health.png",     out |-> "05_Health.png",
      headline |-> <<"Peace of mind", "for every parent">>,
      colors |-> << <<240, 230, 255>>, <<215, 195, 250>>, <<185, 160, 235>> >>],
     [file |-> "06_Settings.png",   out |-> "06_Settings.png",
      headline |-> <<"Made with love,", "just for you">>,
      colors |-> << <<225, 245, 250>>, <<185, 225, 240>>, <<145, 200, 225>> >>] >>

\* The 6.5" loop writing into the 6.7" directory.
MarketingBatches_SharedOutput ==
  << [input |-> "IPHONE_DIR", output |-> "OUT_IPHONE_67",
      canvas |-> <<1284, 2778>>, device |-> "iphone"],
     [input |-> "IPHONE_DIR", output |-> "OUT_IPHONE_67",
      canvas |-> <<1242, 2688>>, device |-> "iphone"],
     [input |-> "IPAD_DIR",   output |-> "OUT_IPAD_13",
      canvas |-> <<2048, 2732>>, device |-> "ipad"],
     [input |-> "IPAD_DIR",   output |-> "OUT_IPAD_129",
      canvas |-> <<2064, 2752>>, device |-> "ipad"] >>

\* The four loops of main(), in program order: generate(s, input, output, canvas, device).
MarketingBatches ==
  << [input |-> "IPHONE_DIR", output |-> "OUT_IPHONE_67",
      canvas |-> IPHONE_67_CANVAS, device |-> "iphone"],
     [input |-> "IPHONE_DIR", output |-> "OUT_IPHONE_65",
      canvas |-> IPHONE_65_CANVAS, device |-> "iphone"],
     [input |-> "IPAD_DIR",   output |-> "OUT_IPAD_13",
      canvas |-> IPAD_13_CANVAS,   device |-> "ipad"],
     [input |-> "IPAD_DIR",   output |-> "OUT_IPAD_129",
      canvas |-> IPAD_129_CANVAS,  device |-> "ipad"] >>

\* The i-th generate() call of main(): batches outermost, SCREENS innermost.
MarketingItems ==
  [i \in 1..(Len(MarketingBatches) * Len(SCREENS)) |->
     [batch  |-> MarketingBatches[((i - 1) \div Len(SCREENS)) + 1],
      screen |-> SCREENS[((i - 1) % Len(SCREENS)) + 1]]]

\* os.path.join(dir, name), kept as the pair of its components.
Join(dir, name) == <<dir, name>>

SourceFiles ==
  {Join(MarketingBatches[b].input, SCREENS[s].file) :
     b \in 1..Len(MarketingBatches), s \in 1..Len(SCREENS)}

MarketingFonts == {"FONT_HEADLINE", "FONT_SUBTITLE"}

\* load_headline_font / load_subtitle_font: truetype, else the default font.
load_font(name) ==
  IF fontFiles[name] = "ok" THEN "truetype" ELSE "default"

\* generate() without its os.path.exists guard: the open of a missing file raises.
generate_NoExistsGuard(i, fault) ==
  LET it  == MarketingItems[i]
      src == Join(it.batch.input, it.screen.file)
  IN IF src \in missing \/ fault = "load"
       THEN [exc |-> "load", caught |-> {}, out |-> <<>>]
     ELSE IF fault = "save"
       THEN [exc |-> "save", caught |-> {}, out |-> <<>>]
     ELSE [exc |-> "none", caught |-> {},
           out |-> << [item |-> i,
                       path |-> Join(it.batch.output, it.screen.out),
                       size |-> it.batch.canvas,
                       mode |-> "RGB",
                       fonts |-> <<load_font("FONT_HEADLINE"),
                                   load_font("FONT_SUBTITLE")>>] >>]

\* What one generate() call does, given whether rendering hits a failure that
\* the function has no handler for (fault = "load": Image.open of a malformed
\* file; "save": the final save fails).  exc is the exception that leaves the
\* call ("none" when it returns), caught the exceptions handled inside it,
\* out the files it wrote.
generate(i, fault) ==
  LET it  == MarketingItems[i]
      src == Join(it.batch.input, it.screen.file)
      fontExc == {<<i, "font">> : f \in {g \in MarketingFonts : fontFiles[g] # "ok"}}
  IN IF src \in missing
       THEN [exc |-> "none", caught |-> {}, out |-> <<>>]
     ELSE IF fault = "load"
       THEN [exc |-> "load", caught |-> {}, out |-> <<>>]
     ELSE IF fault = "save"
       THEN [exc |-> "save", caught |-> fontExc, out |-> <<>>]
     ELSE [exc |-> "none", caught |-> fontExc,
           out |-> << [item |-> i,
                       path |-> Join(it.batch.output, it.screen.out),
                       size |-> it.batch.canvas,
                       mode |-> "RGB",
                       fonts |-> <<load_font("FONT_HEADLINE"),
                                   load_font("FONT_SUBTITLE")>>] >>]

(***************************************************************************)
(* generate_screenshots.py: configuration                                  *)
(***************************************************************************)
IPHONE == <<1290, 2796>>
IPAD   == <<2048, 2732>>

shots == << [fn |-> "shot1", name |-> "01_Welcome"],
            [fn |-> "shot2", name |-> "02_Dashboard"],
            [fn |-> "shot3", name |-> "03_Growth"],
            [fn |-> "shot4", name |-> "04_Statistics"],
            [fn |-> "shot5", name |-> "05_NightMode"],
            [fn |-> "shot6", name |-> "06_Sharing"] >>

ShotTargets == << [label |-> "iPhone", sz |-> IPHONE, out |-> "OUT_IP"],
                  [label |-> "iPad",   sz |-> IPAD,   out |-> "OUT_PD"] >>

\* The i-th fn(sz, p) call of main(): shots outermost, targets innermost.
ShotItems ==
  [i \in 1..(Len(shots) * Len(ShotTargets)) |->
     [shot   |-> shots[((i - 1) \div Len(ShotTargets)) + 1],
      target |-> ShotTargets[((i - 1) % Len(ShotTargets)) + 1]]]

FontCandidates == {"SFPro", "SF-Pro", "Arial"}
FontOrder == <<"SFPro", "SF-Pro", "Arial">>

\* font() without the try around truetype and without a check of the load:
\* the first candidate whose file exists is taken.
RECURSIVE font_from_FirstExisting(_)
font_from_FirstExisting(k) ==
  IF k > Len(FontOrder) THEN "default"
  ELSE IF fontFiles[FontOrder[k]] # "missing" THEN FontOrder[k]
  ELSE font_from_FirstExisting(k + 1)

\* font(size, bold): the first candidate that exists and loads, else the default.
RECURSIVE font_from(_)
font_from(k) ==
  IF k > Len(FontOrder) THEN "default"
  ELSE IF fontFiles[FontOrder[k]] = "ok" THEN FontOrder[k]
  ELSE font_from(k + 1)

font == font_from(1)

\* The candidates font() tries to load: those that exist, up to and including
\* the first that loads.
font_tried ==
  {FontOrder[k] : k \in {j \in 1..Len(FontOrder) :
     /\ fontFiles[FontOrder[j]] # "missing"
     /\ \A m \in 1..(j - 1) : fontFiles[FontOrder[m]] # "ok"}}

\* paste_icon: any failure of the open/resize/paste is swallowed (except: pass).
paste_icon(i) ==
  IF iconFile = "ok" THEN [pasted |-> TRUE,  caught |-> {}]
  ELSE [pasted |-> FALSE, caught |-> {<<i, "icon">>}]

\* The unpacking "for pct, pct_y_frac, label in [(0.25, "P97"), ...]" of shot3
\* binds three names to the elements of each tuple of the list.
PercentileLines == << <<25, "P97">>, <<50, "P50">>, <<78, "P3">> >>
UnpackTargets == 3

unpack_ok == \A k \in 1..Len(PercentileLines) : Len(PercentileLines[k]) = UnpackTargets

\* The dashed-line loop of shot3: each tuple is unpacked, then its line and
\* label are drawn; an unpacking that fails raises and ends the function.
RECURSIVE dashed_lines(_)
dashed_lines(k) ==
  IF k > Len(PercentileLines) THEN [drawn |-> <<>>, exc |-> "none"]
  ELSE IF Len(PercentileLines[k]) # UnpackTargets
    THEN [drawn |-> <<>>, exc |-> "ValueError"]
    ELSE LET rest == dashed_lines(k + 1)
         IN [drawn |-> <<PercentileLines[k]>> \o rest.drawn, exc |-> rest.exc]

\* What a shot3 call draws of its chart: the reference lines, then the curve.
shot3_chart ==
  [called |-> TRUE,
   lines  |-> dashed_lines(1).drawn,
   curve  |-> dashed_lines(1).exc = "none"]

NoChart == [called |-> FALSE, lines |-> <<>>, curve |-> FALSE]

\* os.path.join(out, f"{name}.png")
PngPath(out, name) == <<out, name, ".png">>

\* What one fn(sz, p) call does (fault = "save": img.save fails).
shot(i, fault) ==
  LET it == ShotItems[i]
      fontExc == {<<i, "font">> : f \in {g \in font_tried : fontFiles[g] = "broken"}}
      icon == IF it.shot.fn = "shot1" THEN paste_icon(i)
              ELSE [pasted |-> FALSE, caught |-> {}]
      handled == fontExc \cup icon.caught
  IN IF it.shot.fn = "shot3" /\ ~unpack_ok
       THEN [exc |-> "ValueError", caught |-> handled, out |-> <<>>]
     ELSE IF fault = "save"
       THEN [exc |-> "save", caught |-> handled, out |-> <<>>]
     ELSE [exc |-> "none", caught |-> handled,
           out |-> << [item |-> i,
                       path |-> PngPath(it.target.out, it.shot.name),
                       size |-> it.target.sz,
                       mode |-> "RGB",
                       fonts |-> <<font, icon.pasted>>] >>]

(***************************************************************************)
(* main() of either script                                                 *)
(***************************************************************************)
NumItems == IF script = "marketing" THEN Len(SCREENS) * Len(MarketingBatches)
            ELSE Len(shots) * Len(ShotTargets)

Faults == {"none", "load", "save"}

\* main() with each call wrapped in a handler that logs and goes on.
Call_CatchAndContinue(r) ==
  /\ raised' = raised \cup r.caught
                 \cup (IF r.exc = "none" THEN {} ELSE {<<pos, r.exc>>})
  /\ written' = written \o r.out
  /\ pos' = pos + 1
  /\ status' = "running"
  /\ UNCHANGED <<script, missing, fontFiles, iconFile>>
  /\ UNCHANGED notMain

\* One iteration of main()'s loops: the call returns, or its exception
\* propagates out of main() (there is no try around the calls).
Call(r) ==
  /\ raised' = raised \cup r.caught
                 \cup (IF r.exc = "none" THEN {} ELSE {<<pos, r.exc>>})
  /\ written' = written \o r.out
  /\ IF r.exc = "none"
       THEN /\ pos' = pos + 1
            /\ status' = "running"
       ELSE /\ pos' = pos
            /\ status' = "crashed"
  /\ UNCHANGED <<script, missing, fontFiles, iconFile>>
  /\ UNCHANGED notMain

MarketingCall ==
  /\ script = "marketing" /\ status = "running" /\ pos <= NumItems
  /\ \E fault \in Faults : Call(generate(pos, fault))
  /\ UNCHANGED chart

ShotCall ==
  /\ script = "screenshots" /\ status = "running" /\ pos <= NumItems
  /\ \E fault \in Faults \ {"load"} : Call(shot(pos, fault))
  /\ chart' = IF ShotItems[pos].shot.fn = "shot3" THEN shot3_chart ELSE chart

\* main() falls off the end of its loops and prints "Done".
MainDone ==
  /\ status = "running" /\ pos > NumItems
  /\ status' = "done"
  /\ UNCHANGED <<script, missing, fontFiles, iconFile, pos, written, raised, chart>>
  /\ UNCHANGED notMain

FontStates == {"ok", "missing", "broken"}

MainInit ==
  /\ script \in {"marketing", "screenshots"}
  /\ IF script = "marketing"
       THEN /\ missing \in {m \in SUBSET SourceFiles : Cardinality(m) <= MaxMissing}
            /\ fontFiles \in [MarketingFonts -> {"ok", "missing"}]
            /\ iconFile = "unused"
       ELSE /\ missing = {}
            /\ fontFiles \in [FontCandidates -> FontStates]
            /\ iconFile \in FontStates
  /\ pos = 1
  /\ status = "running"
  /\ written = <<>>
  /\ raised = {}
  /\ chart = NoChart

MainNext == MarketingCall \/ ShotCall \/ MainDone

\* No script is running (the specifications of the rendering routines).
MainIdle ==
  /\ script = "none" /\ missing = {} /\ fontFiles = <<>> /\ iconFile = "unused"
  /\ pos = 1 /\ status = "idle" /\ written = <<>> /\ raised = {}
  /\ chart = NoChart

FrameIdle == frame = [device |-> "none", sw |-> 1, sh |-> 1, frame_w |-> 1, g |-> <<>>]

GradIdle == grad = [h |-> 0, colors |-> <<>>, rows |-> <<>>]

RandIdle == rng = 0 /\ calls = <<>> /\ threads = <<>>
ShadowIdle == shadow = [device |-> <<>>, shadows |-> <<>>]
CurveIdle ==
  curve = [chart_x |-> 0, chart_w |-> 0, chart_h |-> 0, y |-> 0, pts |-> <<>>,
           lines |-> <<>>, markers |-> <<>>]

GenIdle == gen = [pc |-> "idle"]

InitMain == MainInit /\ FrameIdle /\ GradIdle /\ RandIdle /\ ShadowIdle /\ CurveIdle /\ GenIdle

SpecMain == InitMain /\ [][MainNext]_vars

(***************************************************************************)
(* Claims about the batches                                                *)
(***************************************************************************)
IsMissing(i) ==
  Join(MarketingItems[i].batch.input, MarketingItems[i].screen.file) \in missing

WrittenFor(i) == {k \in 1..Len(written) : written[k].item = i}

\* C1: in the marketing script a generate() call whose source file is missing
\* does not raise and writes no file, and every other item main() has handled
\* (also those after the missing one) has its one file, with the path and the
\* canvas size its configuration gives, in batch order.
C1_MissingSourceSkipped ==
  script = "marketing" =>
    /\ \A i \in 1..NumItems :
         IsMissing(i) =>
           /\ WrittenFor(i) = {}
           /\ \A e \in raised : e[1] # i
           /\ ~(status = "crashed" /\ pos = i)
    /\ \A i \in 1..(pos - 1) :
         ~IsMissing(i) =>
           /\ Cardinality(WrittenFor(i)) = 1
           /\ \A k \in WrittenFor(i) :
                /\ written[k].path = <<MarketingItems[i].batch.output,
                                       MarketingItems[i].screen.out>>
                /\ written[k].size = MarketingItems[i].batch.canvas
    /\ \A k \in 1..(Len(written) - 1) : written[k].item < written[k + 1].item

\* A missing item has been passed and a later item has been written.
C1_Witness ==
  /\ script = "marketing"
  /\ \E i \in 1..NumItems :
       /\ IsMissing(i) /\ i < pos
       /\ \E k \in 1..Len(written) : written[k].item > i

\* C2: main() of generate_screenshots.py, with nothing failing in its
\* environment, never ends in an exception, and when it is done it has written
\* all 12 files: shot1..shot6, each at 1290x2796 and at 2048x2732.
C2_FullBatchWritten ==
  (script = "screenshots" /\ \A e \in raised : e[2] # "save") =>
    /\ status # "crashed"
    /\ status = "done" =>
         /\ Len(written) = 12
         /\ \A k \in 1..12 :
              written[k].size = (IF k % 2 = 1 THEN <<1290, 2796>> ELSE <<2048, 2732>>)

\* C3: with every source screenshot present, a finished main() of the marketing
\* script has made 24 generate() calls in the order iPhone 6.7, iPhone 6.5,
\* iPad 13, iPad 12.9, each over SCREENS in list order; each wrote one file, the
\* 24 paths are pairwise distinct and each image has its batch's canvas size.
C3_FullMarketingBatch ==
  (script = "marketing" /\ missing = {} /\ status = "done") =>
    /\ Len(written) = 24
    /\ \A k \in 1..Len(written) :
         /\ written[k].item = k
         /\ written[k].path[2] = SCREENS[((k - 1) % 6) + 1].out
         /\ written[k].path[1] = (CASE k <= 6  -> "OUT_IPHONE_67"
                                    [] k <= 12 -> "OUT_IPHONE_65"
                                    [] k <= 18 -> "OUT_IPAD_13"
                                    [] OTHER   -> "OUT_IPAD_129")
         /\ written[k].size = (CASE k <= 6  -> <<1284, 2778>>
                                 [] k <= 12 -> <<1242, 2688>>
                                 [] k <= 18 -> <<2048, 2732>>
                                 [] OTHER   -> <<2064, 2752>>)
    /\ \A j, k \in 1..Len(written) : j # k => written[j].path # written[k].path

C3_Witness ==
  script = "marketing" /\ missing = {} /\ status = "done" /\ Len(written) = 24

\* C8 as stated: every failure raised inside a render call, other than a font
\* that does not load, has propagated out of main() and ended the batch at
\* the item that raised it.
C8_EveryFailurePropagates ==
  \A e \in raised : e[2] # "font" => (status = "crashed" /\ pos = e[1])

\* C8, amended: every failure raised inside a render call, other than a font
\* that does not load and a failure inside paste_icon (both handled where they
\* occur), has propagated out of main() and ended the batch at the item that
\* raised it; no item from that one on has been written.
C8_UnhandledFailureEndsBatch ==
  \A e \in raised :
    e[2] \notin {"font", "icon"} =>
      /\ status = "crashed"
      /\ pos = e[1]
      /\ \A k \in 1..Len(written) : written[k].item < e[1]

\* A save failed after earlier items were written, with items still to come.
C8_Witness ==
  /\ status = "crashed"
  /\ \E e \in raised : e[2] = "save" /\ e[1] > 1 /\ e[1] < NumItems
  /\ written # <<>>

\* C13: a shot3 call draws three dashed reference lines, at the fractional
\* chart heights 0.25, 0.5 and 0.78 (in hundredths here) with the labels P97,
\* P50 and P3, and then goes on to draw the growth curve.
C13_ReferenceLinesThenCurve ==
  chart.called =>
    /\ Len(chart.lines) = 3
    /\ chart.lines[1][1] = 25 /\ chart.lines[1][Len(chart.lines[1])] = "P97"
    /\ chart.lines[2][1] = 50 /\ chart.lines[2][Len(chart.lines[2])] = "P50"
    /\ chart.lines[3][1] = 78 /\ chart.lines[3][Len(chart.lines[3])] = "P3"
    /\ chart.curve

\* The font an ordered lookup resolves to: the first candidate whose file
\* exists and loads, the default font when there is none.
FirstResolvable ==
  LET good == {k \in 1..Len(FontOrder) : fontFiles[FontOrder[k]] = "ok"}
  IN IF good = {} THEN "default"
     ELSE FontOrder[CHOOSE k \in good : \A m \in good : k <= m]

\* C18: font resolution never raises.  Every file written was rendered with
\* the first candidate font that exists and loads, or with the default font
\* when none does (in the marketing script: each of the two fonts is the
\* loaded one or the default), and a call in which a font load failed went on:
\* it returned, or ended by a failure that is not the font's.
C18_FontsResolveWithoutRaising ==
  /\ \A k \in 1..Len(written) :
       IF script = "screenshots"
         THEN written[k].fonts[1] = FirstResolvable
         ELSE \A f \in 1..2 :
                written[k].fonts[f] =
                  IF fontFiles[<<"FONT_HEADLINE", "FONT_SUBTITLE">>[f]] = "ok"
                    THEN "truetype" ELSE "default"
  /\ \A e \in raised :
       e[2] = "font" =>
         \/ e[1] < pos
         \/ /\ status = "crashed"
            /\ \E o \in raised : o[1] = e[1] /\ o[2] \in {"load", "save", "ValueError"}

\* A screen was written with the third candidate after the load of the first
\* failed and the second was missing.
C18_Witness ==
  /\ script = "screenshots" /\ Len(written) >= 1
  /\ fontFiles["SFPro"] = "broken" /\ fontFiles["SF-Pro"] = "missing"
  /\ fontFiles["Arial"] = "ok"
  /\ written[1].fonts[1] = "Arial"
  /\ <<1, "font">> \in raised

(***************************************************************************)
(* Python float arithmetic (IEEE-754 binary64, round to nearest, ties to   *)
(* even).  The geometry, gradient and chart code computes in floats and    *)
(* truncates with int(); the results below are the doubles Python          *)
(* computes, not the real numbers they approximate.                        *)
(*                                                                         *)
(* A natural number is the sequence of its base-2^15 digits, least         *)
(* significant first, without leading zero digits (0 is <<>>).  A float is *)
(* [sg, m, e] with value sg * m * 2^e, m a natural of exactly Prec bits    *)
(* (or 0).                                                                 *)
(***************************************************************************)
DigitBits == 15
Base == 2^DigitBits
Prec == 53

RECURSIVE NNorm(_)
NNorm(a) ==
  IF a = <<>> THEN <<>>
  ELSE IF a[Len(a)] = 0 THEN NNorm(SubSeq(a, 1, Len(a) - 1))
  ELSE a

RECURSIVE NFromInt(_)
NFromInt(n) == IF n = 0 THEN <<>> ELSE <<n % Base>> \o NFromInt(n \div Base)

RECURSIVE NToInt(_)
NToInt(a) == IF a = <<>> THEN 0 ELSE a[1] + Base * NToInt(Tail(a))

Digit(a, i) == IF i <= Len(a) THEN a[i] ELSE 0

RECURSIVE NAddC(_, _, _, _)
NAddC(a, b, i, c) ==
  IF i > Len(a) /\ i > Len(b) THEN (IF c = 0 THEN <<>> ELSE <<c>>)
  ELSE LET t == Digit(a, i) + Digit(b, i) + c
       IN <<t % Base>> \o NAddC(a, b, i + 1, t \div Base)

NAdd(a, b) == NAddC(a, b, 1, 0)

RECURSIVE NSubB(_, _, _, _)
NSubB(a, b, i, br) ==
  IF i > Len(a) THEN <<>>
  ELSE LET d == Digit(a, i) - Digit(b, i) - br
       IN IF d < 0 THEN <<d + Base>> \o NSubB(a, b, i + 1, 1)
          ELSE <<d>> \o NSubB(a, b, i + 1, 0)

\* a - b for a >= b
NSub(a, b) == NNorm(NSubB(a, b, 1, 0))

RECURSIVE NCmpAt(_, _, _)
NCmpAt(a, b, i) ==
  IF i = 0 THEN 0
  ELSE IF a[i] > b[i] THEN 1
  ELSE IF a[i] < b[i] THEN -1
  ELSE NCmpAt(a, b, i - 1)

\* -1, 0, 1 as a < b, a = b, a > b
NCmp(a, b) ==
  IF Len(a) > Len(b) THEN 1
  ELSE IF Len(a) < Len(b) THEN -1
  ELSE NCmpAt(a, b, Len(a))

RECURSIVE NMulSmallC(_, _, _, _)
NMulSmallC(a, k, i, c) ==
  IF i > Len(a) THEN NFromInt(c)
  ELSE LET t == a[i] * k + c
       IN <<t % Base>> \o NMulSmallC(a, k, i + 1, t \div Base)

\* a * k for 0 <= k <= Base
NMulSmall(a, k) == IF k = 0 THEN <<>> ELSE NMulSmallC(a, k, 1, 0)

\* a * Base^n
NShiftDigits(a, n) == IF a = <<>> THEN <<>> ELSE [i \in 1..n |-> 0] \o a

RECURSIVE NMul(_, _)
NMul(a, b) ==
  IF a = <<>> THEN <<>>
  ELSE NAdd(NMulSmall(b, a[1]), NShiftDigits(NMul(Tail(a), b), 1))

RECURSIVE NDivSmallQ(_, _, _, _)
NDivSmallQ(a, k, i, rem) ==
  IF i = 0 THEN <<>>
  ELSE LET t == rem * Base + a[i]
       IN NDivSmallQ(a, k, i - 1, t % k) \o <<t \div k>>

RECURSIVE NModSmallR(_, _, _, _)
NModSmallR(a, k, i, rem) ==
  IF i = 0 THEN rem ELSE NModSmallR(a, k, i - 1, (rem * Base + a[i]) % k)

\* floor(a / k) and a mod k for 1 <= k <= Base
NDivSmall(a, k) == NNorm(NDivSmallQ(a, k, Len(a), 0))
NModSmall(a, k) == NModSmallR(a, k, Len(a), 0)

\* a * 2^n and floor(a / 2^n)
NShl(a, n) == NShiftDigits(NMulSmall(a, 2^(n % DigitBits)), n \div DigitBits)
NShr(a, n) ==
  IF n \div DigitBits >= Len(a) THEN <<>>
  ELSE NDivSmall(SubSeq(a, (n \div DigitBits) + 1, Len(a)), 2^(n % DigitBits))

RECURSIVE IntBitLen(_)
IntBitLen(n) == IF n = 0 THEN 0 ELSE 1 + IntBitLen(n \div 2)

NBitLen(a) ==
  IF a = <<>> THEN 0 ELSE DigitBits * (Len(a) - 1) + IntBitLen(a[Len(a)])

FZero == [sg |-> 1, m |-> <<>>, e |-> 0]

\* The float nearest to sg * M * 2^E (ties to even).
FRound(sg, M, E) ==
  LET L == NBitLen(M)
  IN IF L = 0 THEN FZero
     ELSE IF L <= Prec
       THEN [sg |-> sg, m |-> NShl(M, Prec - L), e |-> E - (Prec - L)]
     ELSE
       LET sh   == L - Prec
           q    == NShr(M, sh)
           rem  == NSub(M, NShl(q, sh))
           half == NShl(<<1>>, sh - 1)
           c    == NCmp(rem, half)
           up   == c = 1 \/ (c = 0 /\ q[1] % 2 = 1)
           q1   == IF up THEN NAdd(q, <<1>>) ELSE q
       IN IF NBitLen(q1) > Prec
            THEN [sg |-> sg, m |-> NShr(q1, 1), e |-> E + sh + 1]
            ELSE [sg |-> sg, m |-> q1, e |-> E + sh]

\* float(n) for an int n
FInt(n) == FRound(IF n < 0 THEN -1 ELSE 1, NFromInt(IF n < 0 THEN -n ELSE n), 0)

FMul(x, y) == FRound(x.sg * y.sg, NMul(x.m, y.m), x.e + y.e)

FNeg(x) == [x EXCEPT !.sg = -x.sg]

FAdd(x, y) ==
  IF x.m = <<>> THEN y
  ELSE IF y.m = <<>> THEN x
  ELSE
    LET e  == IF x.e < y.e THEN x.e ELSE y.e
        X  == NShl(x.m, x.e - e)
        Y  == NShl(y.m, y.e - e)
        c  == NCmp(X, Y)
    IN IF x.sg = y.sg THEN FRound(x.sg, NAdd(X, Y), e)
       ELSE IF c = 0 THEN FZero
       ELSE IF c = 1 THEN FRound(x.sg, NSub(X, Y), e)
       ELSE FRound(y.sg, NSub(Y, X), e)

FSub(x, y) == FAdd(x, FNeg(y))

\* x / k for an int 1 <= k < Base (the divisor converts to float exactly)
FDivInt(x, k) ==
  IF x.m = <<>> THEN FZero
  ELSE
    LET s   == Prec + DigitBits
        A   == NShl(x.m, s)
        q   == NDivSmall(A, k)
        r   == NModSmall(A, k)
        qs  == NAdd(NShl(q, 1), IF r = 0 THEN <<>> ELSE <<1>>)
    IN FRound(x.sg, qs, x.e - s - 1)

\* a decimal literal num/den, such as 0.022 = FLit(22, 1000)
FLit(num, den) == FDivInt(FInt(num), den)

\* int(x): truncation toward zero
FTrunc(x) ==
  IF x.m = <<>> THEN 0
  ELSE IF x.e >= 0 THEN x.sg * NToInt(NShl(x.m, x.e))
  ELSE x.sg * NToInt(NShr(x.m, -x.e))

\* x < y, x <= y
FLess(x, y) == LET d == FSub(x, y) IN d.m # <<>> /\ d.sg = -1
FLeq(x, y)  == LET d == FSub(x, y) IN d.m = <<>> \/ d.sg = -1

(***************************************************************************)
(* Device frames: build_iphone_frame, build_ipad_frame                     *)
(***************************************************************************)
Max(a, b) == IF a >= b THEN a ELSE b
Min(a, b) == IF a <= b THEN a ELSE b

\* int(n * num/den) for the float literal num/den
IntTimes(n, num, den) == FTrunc(FMul(FInt(n), FLit(num, den)))

\* inner_w = frame_w - bezel (the bezel counted on one side only)
InnerWidth_OneSide(frame_w, bezel) == frame_w - bezel

\* inner_w = frame_w - bezel * 2
InnerWidth(frame_w, bezel) == frame_w - bezel * 2

\* the screenshot is not scaled: inner_h = sh
InnerHeight_Unscaled(sw, sh, inner_w) == sh

\* scale = inner_w / sw; inner_h = int(sh * scale)
InnerHeight(sw, sh, inner_w) == FTrunc(FMul(FInt(sh), FDivInt(FInt(inner_w), sw)))

\* the volume buttons are drawn without the gap between them
side_buttons_NoGap(frame_w, frame_h) ==
  LET ox == 4
      oy == 4
      btn_thickness == 4
  IN CHOOSE b \in
       { LET vol_y2 == vol_y1 + vol_h
             act_y  == vol_y1 - act_rise
         IN [power    |-> <<ox + frame_w - 1, oy + btn_y,
                            ox + frame_w + btn_thickness, oy + btn_y + btn_h>>,
             vol_up   |-> <<ox - btn_thickness, oy + vol_y1, ox + 1, oy + vol_y1 + vol_h>>,
             vol_down |-> <<ox - btn_thickness, oy + vol_y2, ox + 1, oy + vol_y2 + vol_h>>,
             action   |-> <<ox - btn_thickness, oy + act_y, ox + 1, oy + act_y + act_h>>] :
           btn_h    \in {IntTimes(frame_h, 48, 1000)},
           btn_y    \in {IntTimes(frame_h, 23, 100)},
           vol_h    \in {IntTimes(frame_h, 33, 1000)},
           vol_y1   \in {IntTimes(frame_h, 19, 100)},
           vol_gap  \in {IntTimes(frame_h, 12, 1000)},
           act_h    \in {IntTimes(frame_h, 18, 1000)},
           act_rise \in {IntTimes(frame_h, 3, 100)} } : TRUE

\* The four side buttons of the phone: the rectangle <<x0, y0, x1, y1>> passed
\* to each rounded_rectangle call (both corners are drawn).  vol_gap is
\* int(frame_h * 0.012), act_rise is int(frame_h * 0.03).
side_buttons(frame_w, frame_h) ==
  LET ox == 4
      oy == 4
      btn_thickness == 4
  IN CHOOSE b \in
       { LET vol_y2 == vol_y1 + vol_h + vol_gap
             act_y  == vol_y1 - act_rise
         IN [power    |-> <<ox + frame_w - 1, oy + btn_y,
                            ox + frame_w + btn_thickness, oy + btn_y + btn_h>>,
             vol_up   |-> <<ox - btn_thickness, oy + vol_y1, ox + 1, oy + vol_y1 + vol_h>>,
             vol_down |-> <<ox - btn_thickness, oy + vol_y2, ox + 1, oy + vol_y2 + vol_h>>,
             action   |-> <<ox - btn_thickness, oy + act_y, ox + 1, oy + act_y + act_h>>] :
           btn_h    \in {IntTimes(frame_h, 48, 1000)},
           btn_y    \in {IntTimes(frame_h, 23, 100)},
           vol_h    \in {IntTimes(frame_h, 33, 1000)},
           vol_y1   \in {IntTimes(frame_h, 19, 100)},
           vol_gap  \in {IntTimes(frame_h, 12, 1000)},
           act_h    \in {IntTimes(frame_h, 18, 1000)},
           act_rise \in {IntTimes(frame_h, 3, 100)} } : TRUE

\* The sensor island of the phone, its lens and the lens reflection: the
\* rectangle <<x0, y0, x1, y1>> passed to each draw call.  di_drop is
\* int(inner_h * 0.005).
dynamic_island(frame_w, bezel, inner_h) ==
  LET ox == 4
      oy == 4
  IN CHOOSE d \in
       { LET di_x   == ox + (frame_w - di_w) \div 2
             di_y   == oy + bezel + di_drop + 2
             lens_r == IntTimes(di_h, 22, 100)
             lens_x == di_x + di_w - IntTimes(di_w, 28, 100)
             lens_y == di_y + di_h \div 2
             refl_r == Max(lens_r \div 3, 1)
         IN [island |-> <<di_x, di_y, di_x + di_w, di_y + di_h>>,
             lens   |-> <<lens_x - lens_r, lens_y - lens_r,
                          lens_x + lens_r, lens_y + lens_r>>,
             refl   |-> <<lens_x - refl_r + 1, lens_y - refl_r - 1,
                          lens_x + refl_r + 1, lens_y + refl_r - 1>>] :
           di_w    \in {IntTimes(frame_w, 23, 100)},
           di_h    \in {IntTimes(frame_w, 52, 1000)},
           di_drop \in {IntTimes(inner_h, 5, 1000)} } : TRUE

\* the tablet's screen-mask radius is not clamped: corner_inner = corner_outer - bezel
corner_radii_Unclamped(device, corner_outer, bezel) ==
  <<corner_outer, corner_outer - 1, corner_outer - 2, corner_outer - bezel>>

\* The radius passed to each rounded_rectangle call of a frame builder: the
\* body, the two chamfers and the screen mask.
corner_radii(device, corner_outer, bezel) ==
  <<corner_outer, corner_outer - 1, corner_outer - 2,
    IF device = "iphone" THEN corner_outer - bezel ELSE Max(corner_outer - bezel, 2)>>

\* the image is made without the 8 pixels for the side buttons
build_iphone_frame_NoButtonRoom(sw, sh, frame_w) ==
  LET bezel   == Max(IntTimes(frame_w, 22, 1000), 5)
      inner_w == InnerWidth(frame_w, bezel)
      inner_h == InnerHeight(sw, sh, inner_w)
      frame_h == inner_h + bezel * 2
      corner_outer == IntTimes(frame_w, 82, 1000)
  IN [bezel |-> bezel, inner_w |-> inner_w, inner_h |-> inner_h,
      frame_w |-> frame_w, frame_h |-> frame_h,
      corner_outer |-> corner_outer, corner_inner |-> corner_outer - bezel,
      size |-> <<frame_w, frame_h>>,
      body |-> <<0, 0, frame_w - 1, frame_h - 1>>,
      screen_at |-> <<bezel, bezel>>]

\* The geometry build_iphone_frame computes for a screenshot of size (sw, sh),
\* and where it puts the body and the screen in the image it returns.  The
\* island and the buttons are drawn after the screenshot is resized, which
\* needs a screen region of at least one pixel each way (<<>>: not drawn).
build_iphone_frame(sw, sh, frame_w) ==
  LET bezel   == Max(IntTimes(frame_w, 22, 1000), 5)
      inner_w == InnerWidth(frame_w, bezel)
      inner_h == InnerHeight(sw, sh, inner_w)
      frame_h == inner_h + bezel * 2
      corner_outer == IntTimes(frame_w, 82, 1000)
      ox == 4
      oy == 4
  IN [bezel |-> bezel, inner_w |-> inner_w, inner_h |-> inner_h,
      frame_w |-> frame_w, frame_h |-> frame_h,
      corner_outer |-> corner_outer, corner_inner |-> corner_outer - bezel,
      size |-> <<frame_w + 8, frame_h + 8>>,
      body |-> <<ox, oy, ox + frame_w - 1, oy + frame_h - 1>>,
      screen_at |-> <<ox + bezel, oy + bezel>>,
      radii |-> corner_radii("iphone", corner_outer, bezel),
      island |-> IF inner_w >= 1 /\ inner_h >= 1
                   THEN dynamic_island(frame_w, bezel, inner_h) ELSE <<>>,
      buttons |-> IF inner_w >= 1 /\ inner_h >= 1
                    THEN side_buttons(frame_w, frame_h) ELSE <<>>]

\* The same for build_ipad_frame (no side buttons: the body fills the image).
build_ipad_frame(sw, sh, frame_w) ==
  LET bezel   == Max(IntTimes(frame_w, 18, 1000), 5)
      inner_w == InnerWidth(frame_w, bezel)
      inner_h == InnerHeight(sw, sh, inner_w)
      frame_h == inner_h + bezel * 2
      corner_outer == IntTimes(frame_w, 28, 1000)
  IN [bezel |-> bezel, inner_w |-> inner_w, inner_h |-> inner_h,
      frame_w |-> frame_w, frame_h |-> frame_h,
      corner_outer |-> corner_outer, corner_inner |-> Max(corner_outer - bezel, 2),
      size |-> <<frame_w, frame_h>>,
      body |-> <<0, 0, frame_w - 1, frame_h - 1>>,
      screen_at |-> <<bezel, bezel>>,
      radii |-> corner_radii("ipad", corner_outer, bezel)]

\* generate(): dev_w = int(cw * 0.55) for the phone, int(cw * 0.62) for the tablet
dev_w(cw, device) ==
  IF device = "iphone" THEN IntTimes(cw, 55, 100) ELSE IntTimes(cw, 62, 100)

\* Frame widths: the small ones, the widths generate() passes, 273 and 300,
\* where the phone bezel exceeds its 5-pixel minimum, and 60, 61, 71 and 72,
\* around which the smallest corner radius of each device reaches 0.
FrameWidths ==
  (1..MaxFrameW) \cup {273, 300} \cup {60, 61, 71, 72}
    \cup {dev_w(MarketingBatches[b].canvas[1], MarketingBatches[b].device) :
            b \in 1..Len(MarketingBatches)}

\* Screenshot sizes: the small ones, the sizes of the screens the other script
\* renders, and 49 x 49, where sh * (inner_w / sw) rounds below sh * inner_w / sw.
ShotSizes ==
  ((1..MaxShotDim) \X (1..MaxShotDim))
    \cup {<<49, 49>>, <<100, 200>>, IPHONE, IPAD}

\* The arguments of one build call.
FrameInit ==
  \E sz \in ShotSizes, fw \in FrameWidths, d \in {"iphone", "ipad"} :
    frame = [device |-> d, sw |-> sz[1], sh |-> sz[2], frame_w |-> fw, g |-> <<>>]

BuildIphone ==
  /\ frame.device = "iphone" /\ frame.g = <<>>
  /\ frame' = [frame EXCEPT !.g = build_iphone_frame(frame.sw, frame.sh, frame.frame_w)]
  /\ UNCHANGED notFrame

BuildIpad ==
  /\ frame.device = "ipad" /\ frame.g = <<>>
  /\ frame' = [frame EXCEPT !.g = build_ipad_frame(frame.sw, frame.sh, frame.frame_w)]
  /\ UNCHANGED notFrame

FrameNext == BuildIphone \/ BuildIpad

InitFrame == FrameInit /\ MainIdle /\ GradIdle /\ RandIdle /\ ShadowIdle /\ CurveIdle /\ GenIdle

SpecFrame == InitFrame /\ [][FrameNext]_vars

\* The margins the body leaves around the screen: left, top, right, bottom.
ScreenMargins(g) ==
  << g.screen_at[1] - g.body[1],
     g.screen_at[2] - g.body[2],
     g.body[3] - (g.screen_at[1] + g.inner_w - 1),
     g.body[4] - (g.screen_at[2] + g.inner_h - 1) >>

ScreenInsideBody(g) ==
  /\ g.bezel >= 5
  /\ g.inner_w >= 1
  /\ g.inner_h >= 1
  /\ \A k \in 1..4 : ScreenMargins(g)[k] >= 5 /\ ScreenMargins(g)[k] >= g.bezel

\* C4 as stated: for every frame width >= 1 and every screenshot size, both
\* builders give bezel >= 5, inner_w >= 1, inner_h >= 1 and a screen region
\* strictly inside the body, at least the minimum bezel away from each edge.
C4_ScreenInsideBodyAlways ==
  frame.g # <<>> => ScreenInsideBody(frame.g)

\* C4, amended: the same for every frame width >= 11 and every screenshot whose
\* height scales to more than one pixel (sh * inner_w > sw).
C4_ScreenInsideBody ==
  (/\ frame.g # <<>>
   /\ frame.g.frame_w >= 11
   /\ frame.sh * frame.g.inner_w > frame.sw)
    => ScreenInsideBody(frame.g)

\* A frame of either kind, wide enough for its bezel to exceed the minimum.
C4_Witness ==
  /\ frame.g # <<>>
  /\ frame.g.frame_w >= 11
  /\ frame.sh * frame.g.inner_w > frame.sw
  /\ frame.g.bezel > 5
  /\ frame.device = "ipad"

\* C16: build_iphone_frame with a 100 x 200 screenshot and frame_w = 300 gives
\* bezel 6, inner width 288, inner height 576 and an image of 308 x 596.
C16_PhoneExample ==
  (/\ frame.g # <<>> /\ frame.device = "iphone"
   /\ frame.sw = 100 /\ frame.sh = 200 /\ frame.frame_w = 300)
    => /\ frame.g.bezel = 6
       /\ frame.g.inner_w = 288
       /\ frame.g.inner_h = 576
       /\ frame.g.size = <<308, 596>>

C16_Witness ==
  /\ frame.g # <<>> /\ frame.device = "iphone"
  /\ frame.sw = 100 /\ frame.sh = 200 /\ frame.frame_w = 300
  /\ frame.g.size[1] = 308

\* A frame is built only if the screen region has at least one pixel each way
\* (the screenshot is resized to inner_w x inner_h).
FrameBuilt == frame.g # <<>> /\ frame.g.inner_w >= 1 /\ frame.g.inner_h >= 1

ImageSizeExact ==
  /\ frame.g.frame_h = frame.g.inner_h + 2 * frame.g.bezel
  /\ frame.device = "iphone" => frame.g.size = <<frame.frame_w + 8, frame.g.frame_h + 8>>
  /\ frame.device = "ipad" => frame.g.size = <<frame.frame_w, frame.g.frame_h>>

\* C17 as stated: every frame built has the image size (frame_w + 8,
\* frame_h + 8) for the phone and (frame_w, frame_h) for the tablet, with
\* frame_h = inner_h + 2 * bezel and inner_h = floor(sh * (frame_w - 2 * bezel) / sw).
C17_SizeAndFloorHeight ==
  FrameBuilt =>
    /\ ImageSizeExact
    /\ frame.g.inner_h = (frame.sh * (frame.frame_w - 2 * frame.g.bezel)) \div frame.sw

\* C17, amended: the same image sizes and frame_h, with inner_h within one
\* pixel below the exact scaled height: sh * inner_w / sw - 1 <= inner_h <=
\* sh * inner_w / sw.
C17_SizeAndHeightWithinOne ==
  FrameBuilt =>
    /\ ImageSizeExact
    /\ frame.g.inner_w = frame.frame_w - 2 * frame.g.bezel
    /\ frame.g.inner_h * frame.sw <= frame.sh * frame.g.inner_w
    /\ frame.sh * frame.g.inner_w <= (frame.g.inner_h + 1) * frame.sw

\* A phone frame is built whose inner height is one pixel less than the exact
\* scaled height (49 x 49 at frame width 12: inner_w = 2, inner_h = 1).
C17_Witness ==
  /\ FrameBuilt /\ frame.device = "iphone"
  /\ frame.sw = 49 /\ frame.sh = 49 /\ frame.frame_w = 12
  /\ frame.g.inner_h = 1 /\ frame.g.size = <<20, 19>>

(***************************************************************************)
(* create_soft_gradient                                                    *)
(***************************************************************************)
\* lerp with its colour arguments exchanged
lerp_Swapped(c1, c2, t) ==
  [k \in 1..3 |-> FTrunc(FAdd(FInt(c2[k]), FMul(FInt(c1[k] - c2[k]), t)))]

\* lerp(c1, c2, t): int(a + (b - a) * t) on each channel
lerp(c1, c2, t) ==
  [k \in 1..3 |-> FTrunc(FAdd(FInt(c1[k]), FMul(FInt(c2[k] - c1[k]), t)))]

\* no easing: t_eased = t
smoothstep_Linear(t) == t

\* one factor t is missing: t_eased = t * (3 - 2 * t)
smoothstep_MissingFactor(t) == FMul(t, FSub(FInt(3), FMul(FInt(2), t)))

\* t_eased = t * t * (3 - 2 * t)
smoothstep(t) == FMul(FMul(t, t), FSub(FInt(3), FMul(FInt(2), t)))

\* the position is not scaled by the number of segments: pos = t_eased
gradient_row_Unscaled(h, colors, y) ==
  LET n       == Len(colors)
      t       == FDivInt(FInt(y), h)
      p       == smoothstep(t)
      idx     == Min(FTrunc(p), n - 2)
      frac    == FSub(p, FInt(idx))
  IN [idx |-> idx, frac |-> frac, c |-> lerp(colors[idx + 1], colors[idx + 2], frac)]

\* the position is rounded to the nearest segment: idx = min(int(pos + 0.5), n - 2)
gradient_row_Nearest(h, colors, y) ==
  LET n       == Len(colors)
      t       == FDivInt(FInt(y), h)
      t_eased == smoothstep(t)
      p       == FMul(t_eased, FInt(n - 1))
      idx     == Min(FTrunc(FAdd(p, FLit(1, 2))), n - 2)
      frac    == FSub(p, FInt(idx))
  IN [idx |-> idx, frac |-> frac, c |-> lerp(colors[idx + 1], colors[idx + 2], frac)]

\* the segment index is not taken off the position: frac = pos
gradient_row_WholePosition(h, colors, y) ==
  LET n       == Len(colors)
      t       == FDivInt(FInt(y), h)
      t_eased == smoothstep(t)
      p       == FMul(t_eased, FInt(n - 1))
      idx     == Min(FTrunc(p), n - 2)
  IN [idx |-> idx, frac |-> p, c |-> lerp(colors[idx + 1], colors[idx + 2], p)]

\* The body of the row loop for row y of a canvas of height h: the segment
\* index, the fraction within the segment and the colour the row is filled with.
\* (colors is 1-based here: colors[idx + 1] is Python's colors[idx].)
gradient_row(h, colors, y) ==
  LET n       == Len(colors)
      t       == FDivInt(FInt(y), h)
      t_eased == smoothstep(t)
      p       == FMul(t_eased, FInt(n - 1))
      idx     == Min(FTrunc(p), n - 2)
      frac    == FSub(p, FInt(idx))
  IN [idx |-> idx, frac |-> frac, c |-> lerp(colors[idx + 1], colors[idx + 2], frac)]

\* Stop lists: the extremes of every channel difference (+255, -255, 0), the
\* two-stop specification example and its reverse, differences of 1..3, and
\* three-stop lists (two of SCREENS and one of extremes), and a four-stop list.
GradientStops ==
  { << <<0, 255, 128>>, <<255, 0, 128>> >>,
    << <<255, 230, 240>>, <<250, 150, 190>> >>,
    << <<250, 150, 190>>, <<255, 230, 240>> >>,
    << <<0, 0, 0>>, <<1, 2, 3>> >>,
    SCREENS[1].colors,
    SCREENS[2].colors,
    << <<0, 255, 128>>, <<255, 0, 128>>, <<0, 255, 7>> >>,
    << <<0, 0, 0>>, <<255, 255, 255>>, <<0, 128, 255>>, <<255, 0, 7>> >> }

GradientHeights == (1..MaxGradH) \cup {100}

GradInit ==
  \E h \in GradientHeights, cs \in GradientStops :
    grad = [h |-> h, colors |-> cs, rows |-> <<>>]

\* One iteration of "for y in range(h)": row y = Len(rows) is drawn.
GradientRow ==
  /\ Len(grad.rows) < grad.h
  /\ grad' = [grad EXCEPT !.rows =
                Append(@, gradient_row(grad.h, grad.colors, Len(grad.rows)))]
  /\ UNCHANGED notGrad

GradNext == GradientRow

InitGradient == GradInit /\ MainIdle /\ FrameIdle /\ RandIdle /\ ShadowIdle /\ CurveIdle /\ GenIdle

SpecGradient == InitGradient /\ [][GradNext]_vars

\* The loop has ended: the image is returned.
GradientDone == grad.h >= 1 /\ Len(grad.rows) = grad.h

Abs(x) == IF x < 0 THEN -x ELSE x

EndsAtStops ==
  /\ grad.rows[1].c = grad.colors[1]
  /\ \A k \in 1..3 : Abs(grad.rows[grad.h].c[k] - grad.colors[2][k]) <= 1

\* C9 as stated: for every height h >= 1 a two-stop gradient has row 0 in
\* exactly the first stop's colour and row h-1 within 1 per channel of the
\* second stop's colour.
C9_EndsAtStopsAlways ==
  (GradientDone /\ Len(grad.colors) = 2) => EndsAtStops

\* C9, amended: the same for every height h >= 28.
C9_EndsAtStops ==
  (GradientDone /\ Len(grad.colors) = 2 /\ grad.h >= 28) => EndsAtStops

\* A finished two-stop gradient of height >= 28 between stops 255 apart.
C9_Witness ==
  /\ GradientDone /\ Len(grad.colors) = 2 /\ grad.h >= 28
  /\ grad.colors[1][1] = 0 /\ grad.colors[2][1] = 255

\* C10: with stops (255,230,240), (250,150,190) and height 100, row 0 is
\* exactly (255,230,240) and every channel of row 99 is within 1 of (250,150,190).
C10_SpecExample ==
  (/\ GradientDone /\ grad.h = 100
   /\ grad.colors = << <<255, 230, 240>>, <<250, 150, 190>> >>)
    => /\ grad.rows[1].c = <<255, 230, 240>>
       /\ \A k \in 1..3 : Abs(grad.rows[100].c[k] - <<250, 150, 190>>[k]) <= 1

C10_Witness ==
  /\ GradientDone /\ grad.h = 100
  /\ grad.colors = << <<255, 230, 240>>, <<250, 150, 190>> >>
  /\ grad.rows[100].c = <<250, 150, 190>>

\* The row at the vertical midpoint, row floor(h / 2), has been drawn.
MidRowDrawn == Len(grad.rows) > grad.h \div 2

MidRow == grad.rows[(grad.h \div 2) + 1]

\* C11 as stated: for every height h >= 1 a three-stop gradient has row
\* floor(h / 2) in exactly the middle stop's colour.
C11_MidpointAlways ==
  (Len(grad.colors) = 3 /\ MidRowDrawn) => MidRow.c = grad.colors[2]

\* C11, amended: for every even height h a three-stop gradient has row h / 2
\* in exactly the middle stop's colour.
C11_MidpointEvenHeight ==
  (Len(grad.colors) = 3 /\ MidRowDrawn /\ grad.h % 2 = 0) => MidRow.c = grad.colors[2]

\* The midpoint row of a three-stop gradient of even height is drawn, between
\* stops that both differ from the middle one by 255 in some channel.
C11_Witness ==
  /\ Len(grad.colors) = 3 /\ MidRowDrawn /\ grad.h % 2 = 0 /\ grad.h >= 2
  /\ \E k \in 1..3 : /\ Abs(grad.colors[1][k] - grad.colors[2][k]) = 255
                     /\ Abs(grad.colors[3][k] - grad.colors[2][k]) = 255
  /\ MidRow.idx = 1

\* C21: in a three-stop gradient every row y with y < h/2 is coloured by
\* interpolating only stops 0 and 1, and every row y with y >= h/2 by
\* interpolating only stops 1 and 2.
C21_HalvesUseAdjacentPairs ==
  Len(grad.colors) = 3 =>
    \A y \in 0..(Len(grad.rows) - 1) :
      \A r \in {grad.rows[y + 1]} :
        /\ 2 * y < grad.h  => r.idx = 0 /\ r.c = lerp(grad.colors[1], grad.colors[2], r.frac)
        /\ 2 * y >= grad.h => r.idx = 1 /\ r.c = lerp(grad.colors[2], grad.colors[3], r.frac)

\* A finished three-stop gradient of odd height >= 3 whose stops all differ:
\* the last row of the upper half and the first row of the lower half are
\* drawn, each in a colour that is not the middle stop's.
C21_Witness ==
  /\ GradientDone /\ Len(grad.colors) = 3 /\ grad.h % 2 = 1 /\ grad.h >= 3
  /\ grad.colors[1] # grad.colors[2] /\ grad.colors[2] # grad.colors[3]
  /\ grad.rows[((grad.h - 1) \div 2) + 1].idx = 0
  /\ grad.rows[((grad.h + 1) \div 2) + 1].idx = 1
  /\ grad.rows[((grad.h - 1) \div 2) + 1].c # grad.colors[2]
  /\ grad.rows[((grad.h + 1) \div 2) + 1].c # grad.colors[2]

\* C26: with n >= 2 stops, for every row the segment index satisfies
\* 0 <= idx <= n - 2 and the fraction 0 <= frac <= 1, and every channel of the
\* row colour lies between the channel values of stops idx and idx + 1.
C26_SegmentAndFractionInRange ==
  \A y \in 1..Len(grad.rows) :
    \A r \in {grad.rows[y]} :
      /\ Len(grad.colors) >= 2
      /\ 0 <= r.idx /\ r.idx <= Len(grad.colors) - 2
      /\ FLeq(FZero, r.frac) /\ FLeq(r.frac, FInt(1))
      /\ \A k \in 1..3 :
           /\ Min(grad.colors[r.idx + 1][k], grad.colors[r.idx + 2][k]) <= r.c[k]
           /\ r.c[k] <= Max(grad.colors[r.idx + 1][k], grad.colors[r.idx + 2][k])
           /\ 0 <= r.c[k] /\ r.c[k] <= 255

\* A finished four-stop gradient with a row in the last segment, part of the
\* way along it, and a row in the first segment whose colour is strictly
\* between the two stops.
C26_Witness ==
  /\ GradientDone /\ Len(grad.colors) = 4
  /\ \E y \in 1..grad.h :
       /\ grad.rows[y].idx = 2
       /\ FLess(FZero, grad.rows[y].frac) /\ FLess(grad.rows[y].frac, FInt(1))
  /\ \E y \in 1..grad.h :
       /\ grad.rows[y].idx = 0
       /\ grad.colors[1][1] < grad.rows[y].c[1] /\ grad.rows[y].c[1] < grad.colors[2][1]

\* C12: in a two-stop gradient every colour channel is monotone down the
\* canvas: for rows y1 < y2 and channel k, the values do not decrease when
\* stop0[k] <= stop1[k] and do not increase when stop0[k] >= stop1[k].
C12_MonotoneChannels ==
  Len(grad.colors) = 2 =>
    \A k \in 1..3 : \A y1, y2 \in 1..Len(grad.rows) :
      y1 < y2 =>
        /\ grad.colors[1][k] <= grad.colors[2][k] => grad.rows[y1].c[k] <= grad.rows[y2].c[k]
        /\ grad.colors[1][k] >= grad.colors[2][k] => grad.rows[y1].c[k] >= grad.rows[y2].c[k]

\* A finished two-stop gradient of 100 rows with a rising, a falling and a
\* constant channel, whose rising channel takes more than two values.
C12_Witness ==
  /\ GradientDone /\ Len(grad.colors) = 2 /\ grad.h = 100
  /\ grad.colors = << <<0, 255, 128>>, <<255, 0, 128>> >>
  /\ grad.rows[1].c[1] < grad.rows[50].c[1] /\ grad.rows[50].c[1] < grad.rows[100].c[1]
  /\ grad.rows[1].c[2] > grad.rows[50].c[2]

(***************************************************************************)
(* Random decoration: draw_soft_shapes, shot4 (bars), shot5 (stars)        *)
(*                                                                         *)
(* The three routines draw from the module-level generator of Python's     *)
(* random module, which is one object per process.  The generator is       *)
(* modelled as a deterministic machine with RngStates states: seeding sets *)
(* its state from the seed alone, every draw advances it and returns a     *)
(* value that its state and the draw's arguments determine.                *)
(***************************************************************************)
\* seeding folds the seed into the state the generator is in
seed_Mixed(n) == (n + rng) % RngStates

\* random.seed(n): the state afterwards depends on n alone
seed(n) == n % RngStates

rng_next(s) == (5 * s + 3) % RngStates

\* random.randint(a, b) in generator state s: the value and the next state
randint(s, a, b) ==
  LET n == rng_next(s)
  IN [v |-> a + (n * (b - a + 1)) \div RngStates, s |-> n]

\* random(): the float in [0, 1) that the generator yields on reaching state n
random == [n \in 0..(RngStates - 1) |-> FDivInt(FInt(n), RngStates)]

\* random.uniform(a, b) = a + (b - a) * random()
uniform(s, a, b) ==
  LET n == rng_next(s)
  IN [v |-> FAdd(FInt(a), FMul(FInt(b - a), random[n])), s |-> n]

\* "s = w / 1290", the scale factor of the shot functions
shot_scale == [w \in {IPHONE[1], IPAD[1]} |-> FDivInt(FInt(w), 1290)]

\* the routine draws on from whatever state the generator is in
Reseed_Missing(s) == s

\* "random.seed(42)", the statement that precedes the draws of each routine
Reseed(s) == seed(42)

Routines == {"draw_soft_shapes", "shot4", "shot5"}

\* Iterations of each routine's loop: 8 bubbles, 7 days, 180 stars.
LoopItems(fn) ==
  CASE fn = "draw_soft_shapes" -> 8
    [] fn = "shot4" -> 7
    [] fn = "shot5" -> 180

\* Draws in one iteration: bx, by, br, opacity; four segment heights; sx, sy,
\* sr, a and two colour channels.
DrawsPerItem(fn) ==
  CASE fn = "draw_soft_shapes" -> 4
    [] fn = "shot4" -> 4
    [] fn = "shot5" -> 6

NumDraws(fn) == LoopItems(fn) * DrawsPerItem(fn)

\* the bubbles are spread over the whole height: by = randint(0, ch)
soft_draw_FullHeight(s, cw, ch, k) ==
  CASE (k - 1) % 4 = 0 -> randint(s, IntTimes(cw, 5, 100), IntTimes(cw, 95, 100))
    [] (k - 1) % 4 = 1 -> randint(s, 0, ch)
    [] (k - 1) % 4 = 2 -> randint(s, IntTimes(cw, 1, 100), IntTimes(cw, 25, 1000))
    [] OTHER           -> randint(s, 25, 50)

\* draw_soft_shapes, k-th draw of the bubble loop: bx, by, br, opacity
soft_draw(s, cw, ch, k) ==
  CASE (k - 1) % 4 = 0 -> randint(s, IntTimes(cw, 5, 100), IntTimes(cw, 95, 100))
    [] (k - 1) % 4 = 1 -> randint(s, IntTimes(ch, 2, 100), IntTimes(ch, 32, 100))
    [] (k - 1) % 4 = 2 -> randint(s, IntTimes(cw, 1, 100), IntTimes(cw, 25, 1000))
    [] OTHER           -> randint(s, 25, 50)

\* shot4, k-th draw of the bar loop: a segment height, scaled by s = w / 1290
\* and truncated (sh = int(seg_h_val * s))
bar_draw(s, w, k) ==
  LET u == CASE (k - 1) % 4 = 0 -> uniform(s, 80, 160)
             [] (k - 1) % 4 = 1 -> uniform(s, 25, 70)
             [] (k - 1) % 4 = 2 -> uniform(s, 12, 45)
             [] OTHER           -> uniform(s, 8, 30)
  IN [v |-> FTrunc(FMul(u.v, shot_scale[w])), s |-> u.s]

\* shot5, k-th draw of the star loop: sx, sy, sr, a, and the red and green of fill
star_draw(s, w, h, k) ==
  CASE (k - 1) % 6 = 0 -> randint(s, 0, w)
    [] (k - 1) % 6 = 1 -> randint(s, 0, h)
    [] (k - 1) % 6 = 2 ->
         LET u == uniform(s, 1, 3)
         IN [v |-> FMul(u.v, shot_scale[w]), s |-> u.s]
    [] (k - 1) % 6 = 3 -> randint(s, 80, 255)
    [] OTHER ->
         LET d == randint(s, 0, 55) IN [v |-> 200 + d.v, s |-> d.s]

\* The k-th draw of routine fn called for a canvas of the given size.
draw(fn, size, k, s) ==
  CASE fn = "draw_soft_shapes" -> soft_draw(s, size[1], size[2], k)
    [] fn = "shot4" -> bar_draw(s, size[1], k)
    [] fn = "shot5" -> star_draw(s, size[1], size[2], k)

CanvasSizes(fn) ==
  IF fn = "draw_soft_shapes"
    THEN {MarketingBatches[b].canvas : b \in 1..Len(MarketingBatches)}
    ELSE {IPHONE, IPAD}

\* Further canvas sizes draw_soft_shapes is called with on its own: small ones,
\* and sizes whose thirds, 0.32 and 0.02 fall on and between whole pixels.
ShapeCanvases(fn) ==
  IF fn = "draw_soft_shapes"
    THEN ((1..MaxCanvas) \X (1..MaxCanvas)) \cup {<<20, 24>>, <<40, 25>>, <<100, 300>>}
    ELSE {}

\* The draws of one loop iteration, tabulated by routine, canvas size,
\* position in the iteration and generator state.
LoopDraws ==
  [c \in UNION {{<<fn, size, j, s>> : size \in CanvasSizes(fn) \cup ShapeCanvases(fn),
                                     j \in 1..DrawsPerItem(fn),
                                     s \in 0..(RngStates - 1)} : fn \in Routines} |->
     draw(c[1], c[2], c[3], c[4])] @@ <<>>

\* The k-th draw of a call, read from the table.
draw_at(fn, size, k, s) == LoopDraws[<<fn, size, ((k - 1) % DrawsPerItem(fn)) + 1, s>>]

\* A process starts with its generator seeded from the system's entropy.
RandInit == rng \in 0..(RngStates - 1) /\ calls = <<>> /\ threads = <<>>

\* The call in progress, if any, is the last of calls.
InCall == calls # <<>> /\ Len(calls[Len(calls)].out) < NumDraws(calls[Len(calls)].fn)

\* Routine fn is entered and executes its seed statement.
Decorate(fn) ==
  /\ ~InCall
  /\ Len(calls) < MaxCalls
  /\ \E size \in CanvasSizes(fn) :
       calls' = Append(calls, [fn |-> fn, size |-> size, out |-> <<>>])
  /\ rng' = Reseed(rng)
  /\ UNCHANGED threads
  /\ UNCHANGED notRand

DrawSoftShapes == Decorate("draw_soft_shapes")
Shot4Bars == Decorate("shot4")
Shot5Stars == Decorate("shot5")

\* The call in progress makes its next draw.
NextDraw ==
  /\ InCall
  /\ \E d \in {draw_at(calls[Len(calls)].fn, calls[Len(calls)].size,
                       Len(calls[Len(calls)].out) + 1, rng)} :
       /\ rng' = d.s
       /\ calls' = [calls EXCEPT ![Len(calls)].out = Append(@, d.v)]
  /\ UNCHANGED threads
  /\ UNCHANGED notRand

\* The script is run again: a new process, a newly seeded generator.
NewRun ==
  /\ ~InCall
  /\ calls # <<>>
  /\ Len(calls) < MaxCalls
  /\ rng' \in 0..(RngStates - 1)
  /\ UNCHANGED <<calls, threads>>
  /\ UNCHANGED notRand

RandNext == DrawSoftShapes \/ Shot4Bars \/ Shot5Stars \/ NextDraw \/ NewRun

InitRandom == RandInit /\ MainIdle /\ FrameIdle /\ GradIdle /\ ShadowIdle /\ CurveIdle /\ GenIdle

SpecRandom == InitRandom /\ [][RandNext]_vars

CallDone(i) == Len(calls[i].out) = NumDraws(calls[i].fn)

\* C6: two calls of the same routine for the same canvas size, in one run or in
\* two, whatever the generator's state before each, draw the identical
\* sequence: bubble positions, radii and opacities in draw_soft_shapes, bar
\* segment heights in shot4, star placement in shot5.
C6_SameDrawsEveryCall ==
  \A i, j \in 1..Len(calls) :
    (calls[i].fn = calls[j].fn /\ calls[i].size = calls[j].size
       /\ CallDone(i) /\ CallDone(j))
      => calls[i].out = calls[j].out

\* shot5 has run to its end twice for one canvas size.
C6_Witness ==
  /\ Len(calls) = 2
  /\ calls[1].fn = "shot5" /\ calls[2].fn = "shot5"
  /\ calls[1].size = calls[2].size
  /\ CallDone(1) /\ CallDone(2)
  /\ Len(calls[2].out) = 1080

(***************************************************************************)
(* Render calls as threads of one process                                  *)
(*                                                                         *)
(* Each thread runs one call: the seed statement, then the draws of the    *)
(* loop, one generator operation per step.  The interpreter may switch     *)
(* threads between any two operations.  All threads use the generator of   *)
(* the random module, of which the process has one.                        *)
(***************************************************************************)
Threads == {1, 2}

\* The calls of the two threads: two generate() calls, which reach
\* draw_soft_shapes at the canvas size of their batch, or two shot4 calls.
ThreadCalls ==
  {<<<<"draw_soft_shapes", IPHONE_67_CANVAS>>, <<"draw_soft_shapes", IPAD_129_CANVAS>>>>,
   <<<<"shot4", IPHONE>>, <<"shot4", IPAD>>>>}

ThreadInit ==
  /\ rng \in 0..(RngStates - 1)
  /\ calls = <<>>
  /\ threads \in
       {[t \in Threads |->
           [fn |-> c[t][1], size |-> c[t][2], pc |-> 0, alone |-> 0,
            same |-> TRUE, hit |-> FALSE]] : c \in ThreadCalls}

Running(t) == threads[t].pc >= 1 /\ threads[t].pc <= NumDraws(threads[t].fn)

ThreadDone(t) == threads[t].pc > NumDraws(threads[t].fn)

\* Thread t used the generator: every other thread that has seeded and still
\* has draws to make has been cut into.
Touch(t, th) ==
  [u \in Threads |->
     IF u # t /\ Running(u) THEN [th[u] EXCEPT !.hit = TRUE] ELSE th[u]]

\* random.seed(42) on thread t
ThreadSeed ==
  \E t \in Threads :
    /\ threads[t].pc = 0
    /\ rng' = Reseed(rng)
    /\ threads' = Touch(t, [threads EXCEPT ![t].pc = 1, ![t].alone = seed(42)])
    /\ UNCHANGED calls
    /\ UNCHANGED notRand

\* the next random.randint / random.uniform on thread t; r holds the draw made
\* from the shared generator and the draw the call makes when run alone
ThreadDraw ==
  \E t \in Threads :
    /\ Running(t)
    /\ \E r \in {[s \in {rng, threads[t].alone} |->
                   draw_at(threads[t].fn, threads[t].size, threads[t].pc, s)]} :
         /\ rng' = r[rng].s
         /\ threads' = Touch(t, [threads EXCEPT
              ![t].pc = @ + 1,
              ![t].alone = r[threads[t].alone].s,
              ![t].same = @ /\ r[rng].v = r[threads[t].alone].v])
    /\ UNCHANGED calls
    /\ UNCHANGED notRand

ThreadNext == ThreadSeed \/ ThreadDraw

InitThreads == ThreadInit /\ MainIdle /\ FrameIdle /\ GradIdle /\ ShadowIdle /\ CurveIdle /\ GenIdle

SpecThreads == InitThreads /\ [][ThreadNext]_vars

\* C7 as stated: a render call run as a thread beside another, under any
\* interleaving, draws what it draws when the calls run one after the other.
C7_ThreadsNeverInterfere ==
  \A t \in Threads : ThreadDone(t) => threads[t].same

\* C7: a render call run as a thread draws what it draws when run alone,
\* provided no other thread seeded or drew from the process's generator
\* between this call's seed and its last draw.
C7_SameUnlessCutInto ==
  \A t \in Threads : (ThreadDone(t) /\ ~threads[t].hit) => threads[t].same

\* Both threads finished; one ran its seed and draws without being cut into
\* and drew its sequential values, the other was cut into and drew others.
C7_Witness ==
  /\ \A t \in Threads : ThreadDone(t)
  /\ \E t, u \in Threads :
       /\ ~threads[t].hit /\ threads[t].same
       /\ threads[u].hit /\ ~threads[u].same

(***************************************************************************)
(* make_device_shadow                                                      *)
(*                                                                         *)
(* An image is a record [size, px]: px maps each pixel <<x, y>> to its     *)
(* <<r, g, b, a>>.  The image operations are those of the imaging library  *)
(* as make_device_shadow calls them.                                       *)
(***************************************************************************)
Pixels(size) == (0..(size[1] - 1)) \X (0..(size[2] - 1))

\* Image.new("RGBA", size, colour)
Image_new(size, colour) == [size |-> size, px |-> [p \in Pixels(size) |-> colour]]

\* band 3 of img.split()
AlphaBand(img) == [p \in Pixels(img.size) |-> img.px[p][4]]

\* img.putalpha(a): the alpha band of img is replaced by a
putalpha(img, a) ==
  [img EXCEPT !.px = [p \in Pixels(img.size) |->
     <<img.px[p][1], img.px[p][2], img.px[p][3], a[p]>>]]

\* the library's 8-bit blend of in1 and in2 under mask
BLEND8(mask, in1, in2) ==
  LET tmp == mask * in2 + (255 - mask) * in1 + 128
  IN (tmp + tmp \div 256) \div 256

\* dst.paste(src, at, src): src, masked by its own alpha band, over dst at
\* offset at; pixels that fall outside dst are dropped
paste(dst, src, at) ==
  [dst EXCEPT !.px = [p \in Pixels(dst.size) |->
     LET q == <<p[1] - at[1], p[2] - at[2]>>
     IN IF q \in Pixels(src.size)
          THEN [c \in 1..4 |-> BLEND8(src.px[q][4], dst.px[p][c], src.px[q][c])]
          ELSE dst.px[p]]]

Clamp(v, lo, hi) == IF v < lo THEN lo ELSE IF v > hi THEN hi ELSE v

\* img.filter(ImageFilter.GaussianBlur(r)).  The library computes it as box
\* blurs with the edge pixels extended; one box pass of the given radius is
\* modelled, each channel averaged over the window.
GaussianBlur(img, r) ==
  LET w == img.size[1]
      h == img.size[2]
      Window(p) == {<<Clamp(p[1] + dx, 0, w - 1), Clamp(p[2] + dy, 0, h - 1), dx, dy>> :
                      dx \in (0 - r)..r, dy \in (0 - r)..r}
      RECURSIVE Sum(_, _)
      Sum(S, c) == IF S = {} THEN 0
                   ELSE LET e == CHOOSE x \in S : TRUE
                        IN img.px[<<e[1], e[2]>>][c] + Sum(S \ {e}, c)
      n == (2 * r + 1) * (2 * r + 1)
  IN [img EXCEPT !.px = [p \in Pixels(img.size) |->
        [c \in 1..4 |-> (2 * Sum(Window(p), c) + n) \div (2 * n)]]]

\* the silhouette is pasted at pos, the offset is ignored
make_device_shadow_NoOffset(device, canvas_size, at, offset, blur_r, opacity) ==
  LET shadow_layer == Image_new(canvas_size, <<0, 0, 0, 0>>)
      a == AlphaBand(device)
      shadow_base == putalpha(Image_new(device.size, <<0, 0, 0, opacity>>), a)
      pasted == paste(shadow_layer, shadow_base, at)
  IN [pre |-> pasted, layer |-> GaussianBlur(pasted, blur_r)]

\* make_device_shadow(device, canvas_size, pos, offset, blur_r, opacity), with
\* pos called at here: the
\* layer before the blur and the layer returned
make_device_shadow(device, canvas_size, at, offset, blur_r, opacity) ==
  LET shadow_layer == Image_new(canvas_size, <<0, 0, 0, 0>>)
      a == AlphaBand(device)
      shadow_base == putalpha(Image_new(device.size, <<0, 0, 0, opacity>>), a)
      sx == at[1] + offset[1]
      sy == at[2] + offset[2]
      pasted == paste(shadow_layer, shadow_base, <<sx, sy>>)
  IN [pre |-> pasted, layer |-> GaussianBlur(pasted, blur_r)]

\* Small devices: every pixel transparent, half or fully opaque
DevicePixels == {<<0, 0, 0, 0>>, <<40, 40, 44, 128>>, <<40, 40, 44, 255>>}
DeviceSize == <<2, 2>>
Devices == {[size |-> DeviceSize, px |-> f] : f \in [Pixels(DeviceSize) -> DevicePixels]}
ShadowCanvas == <<3, 3>>
ShadowPos == <<0, 0>>
ShadowOffset == <<1, 1>>
ShadowBlur == 1
Opacities == {0, 45, 50, 255}

ShadowInit == shadow \in {[device |-> d, shadows |-> <<>>] : d \in Devices}

\* Two calls are recorded for one device, the second with another opacity.
MakeDeviceShadow ==
  /\ Len(shadow.shadows) < 2
  /\ \E opacity \in Opacities :
       /\ \A i \in 1..Len(shadow.shadows) : shadow.shadows[i].opacity # opacity
       /\ LET r == make_device_shadow(shadow.device, ShadowCanvas, ShadowPos,
                                      ShadowOffset, ShadowBlur, opacity)
          IN shadow' = [shadow EXCEPT !.shadows =
                          Append(@, [opacity |-> opacity, pre |-> r.pre, layer |-> r.layer])]
  /\ UNCHANGED notShadow

ShadowNext == MakeDeviceShadow

InitShadow == ShadowInit /\ MainIdle /\ FrameIdle /\ GradIdle /\ RandIdle /\ CurveIdle /\ GenIdle

SpecShadow == InitShadow /\ [][ShadowNext]_vars

\* Device pixels that are fully opaque and whose shadow lands on the canvas
OpaqueOnCanvas ==
  {q \in Pixels(DeviceSize) :
     /\ shadow.device.px[q][4] = 255
     /\ <<q[1] + ShadowPos[1] + ShadowOffset[1], q[2] + ShadowPos[2] + ShadowOffset[2]>>
          \in Pixels(ShadowCanvas)}

\* C5: before the blur, every shadow pixel under a fully opaque device pixel
\* is (0,0,0) with alpha equal to the opacity argument, and two calls that
\* differ only in opacity return different layers.
C5_ShadowAtOpacity ==
  /\ \A i \in 1..Len(shadow.shadows) : \A q \in OpaqueOnCanvas :
       shadow.shadows[i].pre.px[<<q[1] + ShadowPos[1] + ShadowOffset[1],
                                  q[2] + ShadowPos[2] + ShadowOffset[2]>>]
         = <<0, 0, 0, shadow.shadows[i].opacity>>
  /\ \A i, j \in 1..Len(shadow.shadows) :
       (OpaqueOnCanvas # {} /\ shadow.shadows[i].opacity # shadow.shadows[j].opacity)
         => shadow.shadows[i].layer # shadow.shadows[j].layer

(***************************************************************************)
(* shot3: the growth curve                                                 *)
(***************************************************************************)
\* S(val, scale) = int(val * scale)
S(val, scale) == FTrunc(FMul(FInt(val), scale))

\* The chart area of shot3 for a canvas of width w.
chart_area(w) ==
  LET s == FDivInt(FInt(w), 1290)
      margin == S(80, s)
  IN [chart_x |-> margin + S(60, s),
      chart_w |-> w - margin * 2 - S(80, s),
      chart_h |-> S(650, s)]

\* math.exp at the arguments -2.5 * (i / 29), i = 0..29, as the C library
\* computes it in double precision: pairs <<argument, value>>.
ExpTable ==
  {
     <<[sg |-> 1, m |-> <<>>, e |-> 0],
       [sg |-> 1, m |-> <<0, 0, 0, 128>>, e |-> -52]>>,
     <<[sg |-> -1, m |-> <<6780, 29378, 18078, 176>>, e |-> -56],
       [sg |-> 1, m |-> <<3539, 30171, 28033, 234>>, e |-> -53]>>,
     <<[sg |-> -1, m |-> <<6780, 29378, 18078, 176>>, e |-> -55],
       [sg |-> 1, m |-> <<7055, 6489, 14991, 215>>, e |-> -53]>>,
     <<[sg |-> -1, m |-> <<21469, 5649, 13559, 132>>, e |-> -54],
       [sg |-> 1, m |-> <<7456, 3415, 21681, 197>>, e |-> -53]>>,
     <<[sg |-> -1, m |-> <<6780, 29378, 18078, 176>>, e |-> -54],
       [sg |-> 1, m |-> <<30349, 10438, 10999, 181>>, e |-> -53]>>,
     <<[sg |-> -1, m |-> <<24859, 20338, 22598, 220>>, e |-> -54],
       [sg |-> 1, m |-> <<21553, 22325, 11735, 166>>, e |-> -53]>>,
     <<[sg |-> -1, m |-> <<21469, 5649, 13559, 132>>, e |-> -53],
       [sg |-> 1, m |-> <<9221, 20028, 20240, 152>>, e |-> -53]>>,
     <<[sg |-> -1, m |-> <<30508, 1129, 15819, 154>>, e |-> -53],
       [sg |-> 1, m |-> <<32381, 31663, 397, 140>>, e |-> -53]>>,
     <<[sg |-> -1, m |-> <<6780, 29378, 18078, 176>>, e |-> -53],
       [sg |-> 1, m |-> <<32294, 4798, 14672, 128>>, e |-> -53]>>,
     <<[sg |-> -1, m |-> <<15819, 24858, 20338, 198>>, e |-> -53],
       [sg |-> 1, m |-> <<16214, 16524, 22186, 235>>, e |-> -54]>>,
     <<[sg |-> -1, m |-> <<24859, 20338, 22598, 220>>, e |-> -53],
       [sg |-> 1, m |-> <<7816, 8517, 6920, 216>>, e |-> -54]>>,
     <<[sg |-> -1, m |-> <<1130, 15819, 24858, 242>>, e |-> -53],
       [sg |-> 1, m |-> <<17851, 9750, 11570, 198>>, e |-> -54]>>,
     <<[sg |-> -1, m |-> <<21469, 5649, 13559, 132>>, e |-> -52],
       [sg |-> 1, m |-> <<15332, 4178, 31785, 181>>, e |-> -54]>>,
     <<[sg |-> -1, m |-> <<25988, 3389, 14689, 143>>, e |-> -52],
       [sg |-> 1, m |-> <<7917, 22085, 30804, 166>>, e |-> -54]>>,
     <<[sg |-> -1, m |-> <<30508, 1129, 15819, 154>>, e |-> -52],
       [sg |-> 1, m |-> <<9695, 19302, 4966, 153>>, e |-> -54]>>,
     <<[sg |-> -1, m |-> <<2260, 31638, 16948, 165>>, e |-> -52],
       [sg |-> 1, m |-> <<7276, 610, 16447, 140>>, e |-> -54]>>,
     <<[sg |-> -1, m |-> <<6780, 29378, 18078, 176>>, e |-> -52],
       [sg |-> 1, m |-> <<17881, 20241, 29395, 128>>, e |-> -54]>>,
     <<[sg |-> -1, m |-> <<11299, 27118, 19208, 187>>, e |-> -52],
       [sg |-> 1, m |-> <<18723, 8488, 16433, 236>>, e |-> -55]>>,
     <<[sg |-> -1, m |-> <<15819, 24858, 20338, 198>>, e |-> -52],
       [sg |-> 1, m |-> <<7817, 23426, 31703, 216>>, e |-> -55]>>,
     <<[sg |-> -1, m |-> <<20338, 22598, 21468, 209>>, e |-> -52],
       [sg |-> 1, m |-> <<18746, 24520, 1538, 199>>, e |-> -55]>>,
     <<[sg |-> -1, m |-> <<24859, 20338, 22598, 220>>, e |-> -52],
       [sg |-> 1, m |-> <<4669, 21219, 19875, 182>>, e |-> -55]>>,
     <<[sg |-> -1, m |-> <<29378, 18078, 23728, 231>>, e |-> -52],
       [sg |-> 1, m |-> <<30394, 12193, 17172, 167>>, e |-> -55]>>,
     <<[sg |-> -1, m |-> <<1130, 15819, 24858, 242>>, e |-> -52],
       [sg |-> 1, m |-> <<17590, 24995, 22521, 153>>, e |-> -55]>>,
     <<[sg |-> -1, m |-> <<5650, 13559, 25988, 253>>, e |-> -52],
       [sg |-> 1, m |-> <<14425, 6957, 32552, 140>>, e |-> -55]>>,
     <<[sg |-> -1, m |-> <<21469, 5649, 13559, 132>>, e |-> -51],
       [sg |-> 1, m |-> <<27729, 19442, 11402, 129>>, e |-> -55]>>,
     <<[sg |-> -1, m |-> <<23728, 4519, 30508, 137>>, e |-> -51],
       [sg |-> 1, m |-> <<26939, 16857, 10774, 237>>, e |-> -56]>>,
     <<[sg |-> -1, m |-> <<25988, 3389, 14689, 143>>, e |-> -51],
       [sg |-> 1, m |-> <<4025, 28351, 23805, 217>>, e |-> -56]>>,
     <<[sg |-> -1, m |-> <<28248, 2259, 31638, 148>>, e |-> -51],
       [sg |-> 1, m |-> <<9187, 24042, 24354, 199>>, e |-> -56]>>,
     <<[sg |-> -1, m |-> <<30508, 1129, 15819, 154>>, e |-> -51],
       [sg |-> 1, m |-> <<17772, 4359, 8039, 183>>, e |-> -56]>>,
     <<[sg |-> -1, m |-> <<0, 0, 0, 160>>, e |-> -51],
       [sg |-> 1, m |-> <<29733, 297, 3607, 168>>, e |-> -56]>>
  }

\* The values math.exp(x) can have: the library's result is within one unit
\* in the last place of the table's, and exp(0) is exactly 1.
math_exp(x) ==
  LET v == (CHOOSE p \in ExpTable : p[1] = x)[2]
  IN IF x.m = <<>> THEN {v}
     ELSE {v, [v EXCEPT !.m = NAdd(@, <<1>>)], [v EXCEPT !.m = NSub(@, <<1>>)]}

Samples == 30

\* the x coordinate runs from right to left
curve_px_Mirrored(chart_x, chart_w, t) ==
  chart_x + FTrunc(FMul(FSub(FInt(1), t), FInt(chart_w)))

\* px = chart_x + int(t * chart_w)
curve_px(chart_x, chart_w, t) == chart_x + FTrunc(FMul(t, FInt(chart_w)))

\* weight = 3.0 + 5.5 * (1 - math.exp(-2.5 * t)), given the value ex of the exp
curve_weight(ex) == FAdd(FInt(3), FMul(FLit(55, 10), FSub(FInt(1), ex)))

\* the weight is not divided by the 10 kg of the axis
curve_py_Unscaled(y, chart_h, weight) ==
  y + chart_h - FTrunc(FMul(FSub(weight, FInt(0)), FInt(chart_h)))

\* py = y + chart_h - int(((weight - 0) / 10.0) * chart_h)
curve_py(y, chart_h, weight) ==
  y + chart_h - FTrunc(FMul(FDivInt(FSub(weight, FInt(0)), 10), FInt(chart_h)))

\* The argument of the exp for sample i: -2.5 * t with t = i / 29.
exp_arg(i) == FMul(FNeg(FLit(25, 10)), FDivInt(FInt(i), Samples - 1))

\* One iteration of "for i in range(30)": the point appended to pts.
curve_point(c, i, ex) ==
  <<curve_px(c.chart_x, c.chart_w, FDivInt(FInt(i), Samples - 1)),
    curve_py(c.y, c.chart_h, curve_weight(ex))>>

\* draw.line([pts[i], pts[i+1]]) for i in range(len(pts) - 1)
polyline(pts) == [i \in 1..(Len(pts) - 1) |-> <<pts[i], pts[i + 1]>>]

\* pts[::6]
markers(pts) == [k \in 1..((Len(pts) + 5) \div 6) |-> pts[6 * (k - 1) + 1]]

ChartAreas ==
  {chart_area(IPHONE[1]), chart_area(IPAD[1])}
    \cup {[chart_x |-> 7, chart_w |-> cw, chart_h |-> ch] : cw \in 1..MaxChart, ch \in 1..MaxChart}

CurveInit ==
  \E a \in ChartAreas, y0 \in {0, 411} :
    curve = [chart_x |-> a.chart_x, chart_w |-> a.chart_w, chart_h |-> a.chart_h,
             y |-> y0, pts |-> <<>>, lines |-> <<>>, markers |-> <<>>]

CurvePoint ==
  /\ Len(curve.pts) < Samples
  /\ \E ex \in math_exp(exp_arg(Len(curve.pts))) :
       \E pt \in {curve_point(curve, Len(curve.pts), ex)} :
         curve' = [curve EXCEPT !.pts = Append(@, pt)]
  /\ UNCHANGED notCurve

\* The two drawing loops that follow the sampling loop.
CurveDraw ==
  /\ Len(curve.pts) = Samples
  /\ curve.lines = <<>>
  /\ curve' = [curve EXCEPT !.lines = polyline(curve.pts), !.markers = markers(curve.pts)]
  /\ UNCHANGED notCurve

CurveNext == CurvePoint \/ CurveDraw

InitCurve == CurveInit /\ MainIdle /\ FrameIdle /\ GradIdle /\ RandIdle /\ ShadowIdle /\ GenIdle

SpecCurve == InitCurve /\ [][CurveNext]_vars

large_circles(cw, ch, base_colors) ==
  LET mid == base_colors[2]
  IN << [kind |-> "large",
         cx |-> IntTimes(cw, 15, 100), cy |-> IntTimes(ch, 8, 100),
         radius |-> IntTimes(cw, 5, 10),
         color |-> <<Min(mid[1] + 30, 255), Min(mid[2] + 30, 255), Min(mid[3] + 30, 255), 50>>],
        [kind |-> "large",
         cx |-> IntTimes(cw, 85, 100), cy |-> IntTimes(ch, 7, 10),
         radius |-> IntTimes(cw, 4, 10),
         color |-> <<Max(mid[1] - 20, 0), Max(mid[2] - 20, 0), Max(mid[3] - 20, 0), 35>>] >>

\* The k-th bubble, from the values drawn for it: bx, by, br, opacity.
bubble(out, k) ==
  [kind |-> "small",
   cx |-> out[4 * k - 3], cy |-> out[4 * k - 2], radius |-> out[4 * k - 1],
   color |-> <<255, 255, 255, out[4 * k]>>]

\* The circles composited so far by a call that has drawn the values out.
soft_shapes(cw, ch, base_colors, out) ==
  large_circles(cw, ch, base_colors) \o [k \in 1..(Len(out) \div 4) |-> bubble(out, k)]

ShapesInit == rng \in 0..(RngStates - 1) /\ calls = <<>> /\ threads = <<>>

\* draw_soft_shapes is entered: the large circles, then random.seed(42).
ShapesCall ==
  /\ calls = <<>>
  /\ \E size \in CanvasSizes("draw_soft_shapes") \cup ShapeCanvases("draw_soft_shapes"),
        n \in 1..Len(SCREENS) :
       calls' = << [fn |-> "draw_soft_shapes", size |-> size, out |-> <<>>,
                    base |-> SCREENS[n].colors] >>
  /\ rng' = Reseed(rng)
  /\ UNCHANGED threads
  /\ UNCHANGED notRand

ShapesNext == ShapesCall \/ NextDraw

InitShapes == ShapesInit /\ MainIdle /\ FrameIdle /\ GradIdle /\ ShadowIdle /\ CurveIdle /\ GenIdle

SpecShapes == InitShapes /\ [][ShapesNext]_vars

ShapesSoFar ==
  soft_shapes(calls[1].size[1], calls[1].size[2], calls[1].base, calls[1].out)

\* C19: draw_soft_shapes composites exactly 2 large circles followed by
\* exactly 8 small white translucent ones, and every small circle's centre
\* has floor(0.02 ch) <= y <= floor(0.32 ch), y below ch / 3, and
\* floor(0.05 cw) <= x <= floor(0.95 cw), for every canvas size.
C19_TwoLargeEightSmallUpperThird ==
  calls # <<>> =>
    \A cw \in {calls[1].size[1]}, ch \in {calls[1].size[2]}, shapes \in {ShapesSoFar} :
       /\ Len(shapes) >= 2
       /\ shapes[1].kind = "large" /\ shapes[2].kind = "large"
       /\ CallDone(1) => Len(shapes) = 10
       /\ \A k \in 3..Len(shapes) :
            /\ shapes[k].kind = "small"
            /\ shapes[k].color[1] = 255 /\ shapes[k].color[2] = 255
            /\ shapes[k].color[3] = 255
            /\ shapes[k].color[4] > 0 /\ shapes[k].color[4] < 255
            /\ (ch * 2) \div 100 <= shapes[k].cy
            /\ shapes[k].cy <= (ch * 32) \div 100
            /\ 3 * shapes[k].cy < ch
            /\ (cw * 5) \div 100 <= shapes[k].cx
            /\ shapes[k].cx <= (cw * 95) \div 100

\* A call has drawn all its circles on a canvas where the allowed rows and
\* columns are more than one, some bubble sits on the lowest row allowed and
\* some bubble on the rightmost column allowed.
C19_Witness ==
  /\ calls # <<>> /\ CallDone(1)
  /\ \E cw \in {calls[1].size[1]}, ch \in {calls[1].size[2]}, shapes \in {ShapesSoFar} :
       /\ Len(shapes) = 10
       /\ (ch * 2) \div 100 < (ch * 32) \div 100
       /\ (cw * 5) \div 100 < (cw * 95) \div 100
       /\ \E k \in 3..10 : shapes[k].cy = (ch * 32) \div 100
       /\ \E k \in 3..10 : shapes[k].cx = (cw * 95) \div 100

(***************************************************************************)
(* make_device_shadow over device sizes, canvases, positions and offsets   *)
(***************************************************************************)
PlaceSizes == {<<1, 1>>, <<2, 1>>, <<1, 2>>, <<2, 2>>}
PlaceDevices ==
  UNION {{[size |-> sz, px |-> f] : f \in [Pixels(sz) -> DevicePixels]} : sz \in PlaceSizes}
PlaceCanvases == {<<3, 3>>, <<2, 3>>}
PlacePositions == ((0 - 1)..MaxPos) \X ((0 - 1)..MaxPos)
\* no offset, a small one, and the one generate() passes
PlaceOffsets == {<<0, 0>>, <<1, 1>>, <<12, 16>>}
\* the opacity generate() passes and the default
PlaceOpacities == {45, 50}

PlaceInit == shadow \in {[device |-> d, shadows |-> <<>>] : d \in PlaceDevices}

\* One call make_device_shadow(device, canvas_size, pos, offset, blur_r, opacity)
PlaceShadow ==
  /\ shadow.shadows = <<>>
  /\ \E canvas_size \in PlaceCanvases, at \in PlacePositions, offset \in PlaceOffsets,
        opacity \in PlaceOpacities :
       \E r \in {make_device_shadow(shadow.device, canvas_size, at, offset,
                                    ShadowBlur, opacity)} :
         shadow' = [shadow EXCEPT !.shadows =
                      << [canvas_size |-> canvas_size, at |-> at, offset |-> offset,
                          opacity |-> opacity, pre |-> r.pre, layer |-> r.layer] >>]
  /\ UNCHANGED notShadow

PlaceNext == PlaceShadow

InitPlace == PlaceInit /\ MainIdle /\ FrameIdle /\ GradIdle /\ RandIdle /\ CurveIdle /\ GenIdle

SpecPlace == InitPlace /\ [][PlaceNext]_vars

\* The device pixel that lands on canvas pixel p in call c
Under(c, p) == <<p[1] - (c.at[1] + c.offset[1]), p[2] - (c.at[2] + c.offset[2])>>

\* Canvas pixel p of call c lies under a device pixel that is not transparent
InSilhouette(c, p) ==
  /\ Under(c, p) \in Pixels(shadow.device.size)
  /\ shadow.device.px[Under(c, p)][4] > 0

\* C20: the layer returned has the size canvas_size for every device size and
\* position, and before the blur it is fully transparent everywhere except
\* under the device's alpha silhouette placed with its top-left corner at
\* (pos.x + offset.x, pos.y + offset.y), where it is black and not transparent.
C20_CanvasSizedSilhouetteAtOffset ==
  \A i \in 1..Len(shadow.shadows) :
    \A c \in {shadow.shadows[i]} :
      /\ c.layer.size = c.canvas_size
      /\ DOMAIN c.layer.px = Pixels(c.canvas_size)
      /\ c.pre.size = c.canvas_size
      /\ \A p \in Pixels(c.canvas_size) :
           IF InSilhouette(c, p)
             THEN /\ c.pre.px[p][1] = 0 /\ c.pre.px[p][2] = 0 /\ c.pre.px[p][3] = 0
                  /\ c.pre.px[p][4] > 0
             ELSE c.pre.px[p] = <<0, 0, 0, 0>>

\* A call with a non-zero offset whose silhouette lies partly on the canvas
\* and partly off it, on a device that also has a transparent pixel.
C20_Witness ==
  /\ shadow.shadows # <<>>
  /\ \E c \in {shadow.shadows[1]} :
       /\ c.offset # <<0, 0>>
       /\ shadow.device.size = <<2, 2>>
       /\ \E p \in Pixels(c.canvas_size) : InSilhouette(c, p)
       /\ \E p \in Pixels(c.canvas_size) :
            Under(c, p) \in Pixels(shadow.device.size) /\ ~InSilhouette(c, p)
       /\ \E q \in Pixels(shadow.device.size) :
            /\ shadow.device.px[q][4] > 0
            /\ <<q[1] + c.at[1] + c.offset[1], q[2] + c.at[2] + c.offset[2]>>
                 \notin Pixels(c.canvas_size)

(***************************************************************************)
(* generate(), statement by statement                                      *)
(***************************************************************************)
\* The device is pasted before the shadow is composited.
Statements_DeviceBeforeShadow ==
  << "exists", "open", "gradient", "shapes", "build_device", "rotate",
     "paste_device", "shadow", "load_fonts", "headline", "subtitle", "dots",
     "convert", "save" >>

\* The statements of generate() that the model steps through, in program order.
Statements ==
  << "exists", "open", "gradient", "shapes", "build_device", "rotate",
     "shadow", "paste_device", "load_fonts", "headline", "subtitle", "dots",
     "convert", "save" >>

\* The statement after pc; after the last one the function returns.
after(pc) ==
  LET i == CHOOSE j \in 1..Len(Statements) : Statements[j] = pc
  IN IF i < Len(Statements) THEN Statements[i + 1] ELSE "returned"

\* the separator dots: for offset in [-20, 0, 20]
DotOffsets == <<-20, 0, 20>>

\* The layers a drawing statement puts on the canvas, in order.
drawn(pc, screen) ==
  CASE pc = "gradient"     -> <<"gradient">>
    [] pc = "shapes"       -> <<"shapes">>
    [] pc = "shadow"       -> <<"shadow">>
    [] pc = "paste_device" -> <<"device">>
    [] pc = "headline"     ->
         [k \in 1..(2 * Len(screen.headline)) |->
            IF k % 2 = 1 THEN "headline_glow" ELSE "headline"]
    [] pc = "subtitle"     -> <<"subtitle">>
    [] pc = "dots"         -> [k \in 1..Len(DotOffsets) |-> "dot"]
    [] OTHER               -> <<>>

DrawingStatements ==
  {"gradient", "shapes", "shadow", "paste_device", "headline", "subtitle", "dots"}

\* generate(screen, input_dir, output_dir, canvas_size, device_type) is called
\* for an item of main()'s batch whose source file exists or not.
GenInit ==
  \E i \in 1..(Len(SCREENS) * Len(MarketingBatches)), e \in BOOLEAN :
    gen = [pc |-> "exists", item |-> i, exists |-> e, layers |-> <<>>,
           mode |-> "none", final |-> "none", saved |-> <<>>]

\* if not os.path.exists(src): print, return
GenExists ==
  /\ gen.pc = "exists"
  /\ gen' = [gen EXCEPT !.pc = IF gen.exists THEN after("exists") ELSE "returned"]
  /\ UNCHANGED notGen

\* Image.open(src).convert("RGBA"): a malformed file raises
GenOpen ==
  /\ gen.pc = "open"
  /\ \E fault \in {"none", "load"} :
       gen' = [gen EXCEPT !.pc = IF fault = "none" THEN after("open") ELSE "raised"]
  /\ UNCHANGED notGen

\* A statement that draws on the canvas; the gradient creates it, in RGBA.
GenDraw ==
  /\ gen.pc \in DrawingStatements
  /\ gen' = [gen EXCEPT !.pc = after(gen.pc),
                        !.layers = @ \o drawn(gen.pc, MarketingItems[gen.item].screen),
                        !.mode = "RGBA"]
  /\ UNCHANGED notGen

\* Statements that leave the canvas alone: the frame is built, rotated, the
\* fonts are loaded.
GenCompute ==
  /\ gen.pc \in {"build_device", "rotate", "load_fonts"}
  /\ gen' = [gen EXCEPT !.pc = after(gen.pc)]
  /\ UNCHANGED notGen

\* final = canvas.convert("RGB")
GenConvert ==
  /\ gen.pc = "convert"
  /\ gen' = [gen EXCEPT !.pc = after("convert"), !.final = "RGB"]
  /\ UNCHANGED notGen

\* final.save(os.path.join(output_dir, screen["out"]), "PNG"): it may fail
GenSave ==
  /\ gen.pc = "save"
  /\ \E fault \in {"none", "save"} :
       IF fault = "none"
         THEN gen' = [gen EXCEPT !.pc = after("save"),
                        !.saved = Append(@,
                          [path |-> Join(MarketingItems[gen.item].batch.output,
                                         MarketingItems[gen.item].screen.out),
                           size |-> MarketingItems[gen.item].batch.canvas,
                           mode |-> gen.final,
                           layers |-> gen.layers])]
         ELSE gen' = [gen EXCEPT !.pc = "raised"]
  /\ UNCHANGED notGen

GenNext == GenExists \/ GenOpen \/ GenDraw \/ GenCompute \/ GenConvert \/ GenSave

InitGenerate ==
  GenInit /\ MainIdle /\ FrameIdle /\ GradIdle /\ RandIdle /\ ShadowIdle /\ CurveIdle

SpecGenerate == InitGenerate /\ [][GenNext]_vars

\* Position of a layer in the order the claim gives
LayerRank(l) ==
  CASE l = "gradient" -> 1
    [] l = "shapes"   -> 2
    [] l = "shadow"   -> 3
    [] l = "device"   -> 4
    [] l \in {"headline_glow", "headline"} -> 5
    [] l = "subtitle" -> 6
    [] l = "dot"      -> 7

LayersOf(k) == {i \in 1..Len(gen.layers) : LayerRank(gen.layers[i]) = k}

\* C22: for an existing source file generate() applies the layers in the
\* order gradient, shapes, shadow, device, headline, subtitle, separator
\* dots; the shadow is composited before the device is pasted; the file is
\* written exactly once, as the last step, after every layer, as an RGB image.
C22_LayersInOrderThenOneSave ==
  (gen.pc # "idle" /\ gen.exists) =>
    /\ \A i, j \in 1..Len(gen.layers) :
         i < j => LayerRank(gen.layers[i]) <= LayerRank(gen.layers[j])
    /\ \A k \in {1, 2, 3, 4, 6} : Cardinality(LayersOf(k)) <= 1
    /\ LayersOf(4) # {} => LayersOf(3) # {}
    /\ Len(gen.saved) <= 1
    /\ gen.pc = "returned" => Len(gen.saved) = 1
    /\ gen.saved # <<>> =>
         /\ gen.pc = "returned"
         /\ gen.saved[1].mode = "RGB"
         /\ gen.saved[1].layers = gen.layers
         /\ \A k \in 1..7 : LayersOf(k) # {}

\* generate() has returned for an existing source file with its file saved.
C22_Witness ==
  /\ gen.pc = "returned" /\ gen.exists /\ Len(gen.saved) = 1
  /\ Len(gen.layers) = 12

(***************************************************************************)
(* build_iphone_frame: side buttons, island, corner radii                  *)
(***************************************************************************)
PhoneBuilt == FrameBuilt /\ frame.device = "iphone"

\* Rows y0..y1 and rows z0..z1 have no row in common
RowsDisjoint(r, q) == r[4] < q[2] \/ q[4] < r[2]

RectHeight(r) == r[4] - r[2]

ButtonsLaidOut(g) ==
  \A b \in {g.buttons} :
    /\ b.power[1] <= g.body[3] /\ b.power[3] > g.body[3]
    /\ \A l \in {b.action, b.vol_up, b.vol_down} : l[1] < g.body[1] /\ l[3] >= g.body[1]
    /\ b.action[2] < b.vol_up[2] /\ b.vol_up[2] < b.vol_down[2]
    /\ RowsDisjoint(b.action, b.vol_up)
    /\ RowsDisjoint(b.vol_up, b.vol_down)
    /\ RowsDisjoint(b.action, b.vol_down)
    /\ RectHeight(b.action) <= RectHeight(b.vol_up)
    /\ RectHeight(b.action) <= RectHeight(b.vol_down)

\* C23 as stated: for every phone frame built the power button extends beyond
\* the body's right edge, the three other buttons beyond its left edge; top to
\* bottom the left buttons are action, volume-up, volume-down, their rows are
\* pairwise disjoint and the action button is no taller than a volume button.
C23_ButtonsLaidOutAlways ==
  PhoneBuilt => ButtonsLaidOut(frame.g)

\* C23, amended: the same for every phone frame built with frame_h >= 84.
C23_ButtonsLaidOut ==
  (PhoneBuilt /\ frame.g.frame_h >= 84) => ButtonsLaidOut(frame.g)

\* A phone frame of height >= 84 whose volume buttons are one row apart and
\* whose action button has a height.
C23_Witness ==
  /\ PhoneBuilt /\ frame.g.frame_h >= 84
  /\ frame.g.buttons.vol_down[2] = frame.g.buttons.vol_up[4] + 1
  /\ RectHeight(frame.g.buttons.action) >= 1

\* Rectangle r lies within an image of the given size
InsideImage(r, size) ==
  /\ 0 <= r[1] /\ r[1] <= r[3] /\ r[3] <= size[1] - 1
  /\ 0 <= r[2] /\ r[2] <= r[4] /\ r[4] <= size[2] - 1

Decorations(g) ==
  {g.buttons.power, g.buttons.vol_up, g.buttons.vol_down, g.buttons.action,
   g.island.island, g.island.lens}

\* C24: every decoration drawn by build_iphone_frame (the four side buttons,
\* the sensor island and its lens) has its rectangle entirely inside the
\* returned image, x in 0..frame_w + 7 and y in 0..frame_h + 7.
C24_DecorationsInsideImage ==
  PhoneBuilt =>
    /\ frame.g.size = <<frame.g.frame_w + 8, frame.g.frame_h + 8>>
    /\ \A r \in Decorations(frame.g) : InsideImage(r, frame.g.size)

\* The radii passed to rounded-rectangle draws are all non-negative
RadiiNonNegative(g) == \A k \in 1..Len(g.radii) : g.radii[k] >= 0

\* C25 as stated: for every frame width >= 1 every corner radius passed to a
\* rounded-rectangle draw by build_iphone_frame and build_ipad_frame is
\* non-negative: the outer radius, the chamfer radii outer - 1 and outer - 2,
\* and the screen-mask radius.
C25_RadiiNonNegativeAlways ==
  (frame.g # <<>> /\ frame.frame_w >= 1) => RadiiNonNegative(frame.g)

\* C25, amended: the same for every phone frame width >= 61 and every tablet
\* frame width >= 72.
C25_RadiiNonNegative ==
  (/\ frame.g # <<>>
   /\ frame.device = "iphone" => frame.frame_w >= 61
   /\ frame.device = "ipad" => frame.frame_w >= 72)
    => RadiiNonNegative(frame.g)

\* A tablet frame wide enough, whose screen-mask radius is the clamp's 2
\* because outer - bezel is below it, and whose second chamfer radius is small.
C25_Witness ==
  /\ frame.g # <<>> /\ frame.device = "ipad" /\ frame.frame_w >= 72
  /\ frame.g.corner_outer - frame.g.bezel < 2
  /\ frame.g.radii[4] = 2

====
